---- MODULE Spec2Model ----
(***************************************************************************)
(* Model of the line-oriented YAML patching tool                           *)
(* (.github/workflows/modify_patches.py and version_upgrade.py).           *)
(*                                                                         *)
(* The output file is a sequence of lines.  A line is a record: its kind   *)
(* `k` stands for the literal text the code tests with str.strip(),        *)
(* str.startswith() and re.match(); the other fields hold the raw text of  *)
(* the values written on the line, as sequences of one-character strings.  *)
(* Line indices are 0-based as in the code: line i of `lines` is           *)
(* lines[i + 1].                                                            *)
(***************************************************************************)
EXTENDS Integers, Sequences, FiniteSets, TLC

VARIABLES
    file,        \* the lines of roles/common/defaults/main.yml on disk
    file0,       \* that file as it was before the run started
    input_state, \* modify_patchlist.yaml: "ok", "missing", "malformed", "empty"
    patch_data,  \* yaml.safe_load of the input: section name -> list of records
    pc,          \* the statement of main() that runs next
    exit_code,   \* -1 while the process runs, then its exit status
    log,         \* the kinds of message printed so far, in order
    pre,         \* the file as the section in progress found it
    args,        \* arguments of the function under study (function-level specs)
    result       \* its result (function-level specs)

vars == <<file, file0, input_state, patch_data, pc, exit_code, log, pre, args, result>>

(***************************************************************************)
(* Text: Python str values as sequences of characters.                     *)
(***************************************************************************)
QUOTE == "\""
SPACE == " "
COMMA == ","

\* str.isspace() for the characters of the model
IsSpace(c) == c = SPACE

RECURSIVE LStrip(_)
LStrip(s) == IF s # <<>> /\ IsSpace(Head(s)) THEN LStrip(Tail(s)) ELSE s

RECURSIVE RStrip(_)
RStrip(s) ==
    IF s # <<>> /\ IsSpace(s[Len(s)]) THEN RStrip(SubSeq(s, 1, Len(s) - 1)) ELSE s

\* str.strip()
Strip(s) == LStrip(RStrip(s))

\* the longest prefix of s made of characters outside `stop`
RECURSIVE PrefixNotIn(_, _)
PrefixNotIn(s, stop) ==
    IF s = <<>> \/ Head(s) \in stop THEN <<>>
    ELSE <<Head(s)>> \o PrefixNotIn(Tail(s), stop)

Drop(s, n) == SubSeq(s, n + 1, Len(s))

LeadingSpaces(s) == Len(s) - Len(LStrip(s))

Max(S) == CHOOSE x \in S : \A y \in S : y <= x
Min(S) == CHOOSE x \in S : \A y \in S : x <= y

\* The value re.match / re.search give when the pattern does not match.
NoMatch == [matched |-> FALSE, group |-> <<>>]
Match(g) == [matched |-> TRUE, group |-> g]


(***************************************************************************)
(* Lines of the output file.  The comment of each constructor shows the    *)
(* text of the line; <x> is the raw text of a value.                       *)
(***************************************************************************)
HeaderLine(key) == [k |-> "header", key |-> key]          \* `<key>:`
BlankLine == [k |-> "blank"]                              \* an empty line
TopLine == [k |-> "top"]                                  \* `other_key: value`
CommentLine == [k |-> "comment"]                          \* `# text`
BadLine == [k |-> "bad"]                                  \* `key: [unclosed`
NameLine(t) == [k |-> "name", text |-> t]                 \* `  - name: <t>`
VersionLine(t) == [k |-> "version", text |-> t]           \* `    version: <t>`
EditionsLine(t) == [k |-> "editions", text |-> t]         \* `    editions: <t>`
EditionsKeyLine == [k |-> "editions_key"]                 \* `    editions:`
EditionItemLine(t) == [k |-> "edition_item", text |-> t]  \* `      - <t>`
FilesLine == [k |-> "files"]                              \* `    files:`
CategoryLine(t) == [k |-> "category", text |-> t]         \* `  - category: <t>`
PatchnumLine(t) == [k |-> "patchnum", text |-> t]         \* `    patchnum: <t>`
\* an entry written with two spaces after its dash, the lines of its mapping
\* indented to match
WideNameLine(t) == [k |-> "name_wide", text |-> t]         \* `  -  name: <t>`
WideCategoryLine(t) == [k |-> "category_wide", text |-> t] \* `  -  category: <t>`
PatchutilLine(t) == [k |-> "patchutil", text |-> t]       \* `    patchutil: <t>`

Quoted(t) == <<QUOTE>> \o t \o <<QUOTE>>

\* `      - { name: "<name>", sha256sum: "<sha256sum>", md5sum: "<md5sum>" }`
FileLine(f) ==
    [k |-> "file", name |-> Strip(f.name), sha256sum |-> Strip(f.sha256sum),
     md5sum |-> Strip(f.md5sum)]

\* `      - { name: "<name>", sha256sum: "<sha256sum>", md5sum: "<md5sum>",`
FileHeadLine(f) ==
    [k |-> "file_head", name |-> Strip(f.name), sha256sum |-> Strip(f.sha256sum),
     md5sum |-> Strip(f.md5sum)]

\* `          alt_name: "<..>", alt_sha256sum: "<..>", alt_md5sum: "<..>" }`
FileTailLine(f) ==
    [k |-> "file_tail", alt_name |-> Strip(f.alt_name),
     alt_sha256sum |-> Strip(f.alt_sha256sum), alt_md5sum |-> Strip(f.alt_md5sum)]

\* the tail of file f directly followed, on the same line, by the head of g
FileTailHeadLine(f, g) ==
    [k |-> "file_tail_head", tail |-> FileTailLine(f), head |-> FileHeadLine(g)]

\* `  - { category: "OPatch", release: "<release>", patchnum: "<patchnum>",
\*       patchfile: "<patchfile>", md5sum: "<md5sum>" }`
OpatchLine(p) ==
    [k |-> "opatch", release |-> Strip(p.release), patchnum |-> Strip(p.patchnum),
     patchfile |-> Strip(p.patchfile), md5sum |-> Strip(p.md5sum)]

\* str(x).lower() of a YAML boolean
LowerBool(b) == IF b THEN "true" ELSE "false"

\* `  - { category: "<category>", base: "<base>", release: "<release>",
\*       patchnum: "<patchnum>", patchfile: "<patchfile>", patch_subdir: "<..>",
\*       prereq_check: <..>, method: "<..>", ocm: <..>, upgrade: <..>, md5sum: "<..>" }`
PatchLine(p) ==
    [k |-> "patch", category |-> Strip(p.category), base |-> Strip(p.base),
     release |-> Strip(p.release), patchnum |-> Strip(p.patchnum),
     patchfile |-> Strip(p.patchfile), patch_subdir |-> Strip(p.patch_subdir),
     prereq_check |-> LowerBool(p.prereq_check), method |-> Strip(p.method),
     ocm |-> LowerBool(p.ocm), upgrade |-> LowerBool(p.upgrade),
     md5sum |-> Strip(p.md5sum)]

\* `# - { category: ... }`: a patch entry that is commented out
CommentedPatchLine(p) == [k |-> "commented", patch |-> PatchLine(p)]

(***************************************************************************)
(* The tests the code makes on a line.                                     *)
(***************************************************************************)
\* line.strip() == '<key>:'
IsHeader(line, key) == line.k = "header" /\ line.key = key

\* line.strip() == ""
IsBlank(line) == line.k = "blank"

\* line.strip().startswith('#') and line.startswith('#')
StartsWithHash(line) == line.k \in {"comment", "commented"}

\* line.startswith('# -')
StartsWithHashDash(line) == line.k = "commented"

\* re.match(r'^\S', line) and not line.strip().startswith('-')
IsTopLevelLine(line) == line.k \in {"header", "top", "comment", "commented", "bad"}

\* re.match(r'^  - name:', line)
IsNameMarker(line) == line.k = "name"

\* re.match(r'^  - category:', line)
IsCategoryMarker(line) == line.k = "category"

\* `\s*(.+)$` on the text that follows `key:` (one space, then t): the white
\* space is skipped, the group is the rest of the line; the group needs one
\* character, which is the last white space when nothing else is left.
RestOfLine(t) ==
    LET s == <<SPACE>> \o t
    IN  IF LStrip(s) # <<>> THEN LStrip(s) ELSE <<s[Len(s)]>>

\* re.match(r'^\s*-\s*name\s*:\s*(.+)$', line)
name_match(line) ==
    IF line.k \in {"name", "name_wide"} THEN Match(RestOfLine(line.text)) ELSE NoMatch

\* re.match(r'^\s*version\s*:\s*(.+)$', line)
version_match(line) ==
    IF line.k = "version" THEN Match(RestOfLine(line.text)) ELSE NoMatch

\* `"?([^"\n]+)"?$` tried at s: the group is the run of characters up to the
\* next double quote, and only an optional double quote may follow it.
QuotedRunAt(s) ==
    LET body == IF s # <<>> /\ Head(s) = QUOTE THEN Tail(s) ELSE s
        run == PrefixNotIn(body, {QUOTE})
        rest == Drop(body, Len(run))
    IN  IF run # <<>> /\ rest \in {<<>>, <<QUOTE>>} THEN Match(run) ELSE NoMatch

\* re.match(r'^\s*patchnum\s*:\s*"?([^"\n]+)"?$', line): `\s*` takes as much
\* white space as leaves a match.
patchnum_match(line) ==
    IF line.k # "patchnum" THEN NoMatch
    ELSE LET s == <<SPACE>> \o line.text
             ok == {n \in 0..LeadingSpaces(s) : QuotedRunAt(Drop(s, n)).matched}
         IN  IF ok = {} THEN NoMatch ELSE QuotedRunAt(Drop(s, Max(ok)))

\* re.search(r'release\s*:\s*"?([^",}]+)"?', line) on a flow-mapping line: the
\* group is the text of the release up to the first `"`, `,` or `}`; when that
\* is empty the pattern falls back to the space before the opening quote.
ReleaseGroup(release) ==
    LET run == PrefixNotIn(release, {QUOTE, COMMA, "}"})
    IN  IF run # <<>> THEN run ELSE <<SPACE>>

release_match(line) ==
    CASE line.k \in {"opatch", "patch"} -> Match(ReleaseGroup(line.release))
      [] line.k = "commented" -> Match(ReleaseGroup(line.patch.release))
      [] OTHER -> NoMatch

\* What follows the first closing double quote of a flow-mapping value, read
\* as the YAML scanner reads it: after a scalar only white space, a comma or
\* the end may come; after a comma a plain scalar or a double-quoted one
\* starts a further entry; a plain scalar runs up to the next comma.  TRUE
\* when the text ends where the mapping can go on.
RECURSIVE FlowRest(_, _)
FlowRest(r, state) ==
    IF r = <<>> THEN state \in {"after_scalar", "in_plain"}
    ELSE LET c == Head(r)
         IN  CASE state = "after_scalar" ->
                    IF IsSpace(c) THEN FlowRest(Tail(r), "after_scalar")
                    ELSE c = COMMA /\ FlowRest(Tail(r), "after_comma")
               [] state = "after_comma" ->
                    IF IsSpace(c) THEN FlowRest(Tail(r), "after_comma")
                    ELSE IF c = QUOTE THEN FlowRest(Tail(r), "in_quoted")
                    ELSE c # COMMA /\ FlowRest(Tail(r), "in_plain")
               [] state = "in_plain" ->
                    FlowRest(Tail(r), IF c = COMMA THEN "after_comma" ELSE "in_plain")
               [] OTHER ->
                    FlowRest(Tail(r), IF c = QUOTE THEN "after_scalar" ELSE "in_quoted")

\* The value written as `"<t>"` in a flow mapping: the scalar ends at the first
\* double quote of t, and what is left of t, with the closing quote, must read
\* as further entries of the mapping.
DoubleQuoted(t) == PrefixNotIn(t, {QUOTE})

DoubleQuotedOk(t) ==
    \/ DoubleQuoted(t) = t
    \/ FlowRest(Drop(t, Len(DoubleQuoted(t)) + 1) \o <<QUOTE>>, "after_scalar")

\* yaml.safe_load of one line.  "list": a one-item list holding the mapping
\* `item`; "none": an empty document (blank or comment); "error": YAMLError;
\* "other": a document that is not a list of mappings.
YamlNone == [kind |-> "none"]
YamlError == [kind |-> "error"]
YamlOther == [kind |-> "other"]

yaml_safe_load(line) ==
    CASE line.k = "patch" ->
           IF \A f \in {"category", "base", "release", "patchnum", "patchfile",
                         "patch_subdir", "method", "md5sum"} : DoubleQuotedOk(line[f])
           THEN [kind |-> "list",
                 item |-> [category |-> DoubleQuoted(line.category),
                           base |-> DoubleQuoted(line.base),
                           release |-> DoubleQuoted(line.release),
                           patchnum |-> DoubleQuoted(line.patchnum)]]
           ELSE YamlError
      [] line.k = "opatch" ->
           IF \A f \in {"release", "patchnum", "patchfile", "md5sum"} :
                  DoubleQuotedOk(line[f])
           THEN [kind |-> "list",
                 item |-> [category |-> <<"O", "P", "a", "t", "c", "h">>,
                           release |-> DoubleQuoted(line.release),
                           patchnum |-> DoubleQuoted(line.patchnum)]]
           ELSE YamlError
      [] line.k \in {"blank", "comment", "commented"} -> YamlNone
      [] OTHER -> YamlOther

(***************************************************************************)
(* Python list operations on 0-based indices.                              *)
(***************************************************************************)
At(lines, i) == lines[i + 1]

\* A variant of DelSlice that spares the first line of the slice:
\* del lines[start + 1:end]
DelSliceAfterStart(lines, start, end) ==
    LET n == Len(lines)
        s == IF start + 1 < n THEN start + 1 ELSE n
        e == IF end < n THEN end ELSE n
    IN  IF e <= s THEN lines ELSE SubSeq(lines, 1, s) \o SubSeq(lines, e + 1, n)

\* del lines[start:end]
DelSlice(lines, start, end) ==
    LET n == Len(lines)
        s == IF start < n THEN start ELSE n
        e == IF end < n THEN end ELSE n
    IN  IF e <= s THEN lines ELSE SubSeq(lines, 1, s) \o SubSeq(lines, e + 1, n)

\* del lines[i]
DelAt(lines, i) == DelSlice(lines, i, i + 1)

\* lines.insert(i, x) for each x of xs in turn, every one at index i + j * step
\* (step 0: all at the same index, so the last inserted comes first)
RECURSIVE InsertAll(_, _, _, _)
InsertAll(lines, i, xs, step) ==
    IF xs = <<>> THEN lines
    ELSE LET at == IF i < Len(lines) THEN i ELSE Len(lines)
         IN  InsertAll(SubSeq(lines, 1, at) \o <<Head(xs)>> \o Drop(lines, at),
                       i + step, Tail(xs), step)

\* file.writelines(lines) followed by readlines(): an element that holds
\* several lines of text (a block) is read back as that many lines
RECURSIVE Flatten(_)
Flatten(blocks) == IF blocks = <<>> THEN <<>> ELSE Head(blocks) \o Flatten(Tail(blocks))

\* sorted(S, reverse=True) of a set of integers
RECURSIVE SortedDesc(_)
SortedDesc(S) == IF S = {} THEN <<>> ELSE <<Max(S)>> \o SortedDesc(S \ {Max(S)})

(***************************************************************************)
(* Block Remover: software_delete_duplicates, gi_interim_delete_duplicates *)
(* and patch_delete_duplicates.                                            *)
(***************************************************************************)
\* range(0, 10): how far back the start of a block is looked for
START_WINDOW == 10
\* range(1, 20): how far ahead the end of a block is looked for
END_WINDOW == 20

\* A variant of BlockStart that falls back on the match line itself when no
\* marker stands in the window, so that every match gives a range.
BlockStartAtMatch(lines, match_line, markers) ==
    LET found == {idx \in 0..match_line :
                     /\ match_line - idx < START_WINDOW
                     /\ idx \in markers}
    IN  IF found = {} THEN {match_line} ELSE {Max(found)}

\* the first idx = match_line - find_range, find_range in range(0, 10), idx >= 0,
\* that is one of `markers`, the indices of the entry markers; {} stands for None
BlockStart(lines, match_line, markers) ==
    LET found == {idx \in 0..match_line :
                     /\ match_line - idx < START_WINDOW
                     /\ idx \in markers}
    IN  IF found = {} THEN {} ELSE {Max(found)}

\* the first idx = match_line + find_range, find_range in range(1, 20),
\* idx < len(lines), that is one of `ends`, the indices of the lines that end
\* a block; {} stands for None
BlockEnd(lines, match_line, ends) ==
    LET found == {idx \in (match_line + 1)..(Len(lines) - 1) :
                     /\ idx - match_line < END_WINDOW
                     /\ idx \in ends}
    IN  IF found = {} THEN {} ELSE {Min(found)}

\* a (start, end) tuple of removed_ranges; end_none: end is None
Range(start, end_none, end) == [start |-> start, end_none |-> end_none, end |-> end]

\* sorted(removed_ranges, reverse=True) compares (start, end) tuples: it raises
\* TypeError when two tuples have the same start and only one end is None
SortRaises(ranges) ==
    \E i, j \in 1..Len(ranges) :
        /\ ranges[i].start = ranges[j].start
        /\ ranges[i].end_none # ranges[j].end_none

RangeLess(a, b) == a.start < b.start \/ (a.start = b.start /\ a.end < b.end)

RECURSIVE SortedRangesDesc(_)
SortedRangesDesc(ranges) ==
    IF ranges = <<>> THEN <<>>
    ELSE LET i == CHOOSE i \in 1..Len(ranges) :
                      \A j \in 1..Len(ranges) : ~RangeLess(ranges[i], ranges[j])
         IN  <<ranges[i]>> \o
             SortedRangesDesc(SubSeq(ranges, 1, i - 1) \o Drop(ranges, i))

\* for start, end in ...: del lines[start:end]
RECURSIVE DelRanges(_, _)
DelRanges(lines, ranges) ==
    IF ranges = <<>> THEN lines
    ELSE LET r == Head(ranges)
         IN  DelRanges(DelSlice(lines, r.start,
                                IF r.end_none THEN Len(lines) ELSE r.end),
                       Tail(ranges))

\* What a remover leaves: the lines of the file, the number of error messages
\* printed, and whether it died of an exception (before writing anything).
Removed(lines, errors, raised) == [lines |-> lines, errors |-> errors, raised |-> raised]

\* removed_ranges of software_delete_duplicates, for the match lines in
\* descending order: a block without a following marker ends at len(lines)
RECURSIVE software_ranges(_, _)
software_ranges(lines, matches) ==
    IF matches = <<>> THEN <<>>
    ELSE LET markers == {idx \in 0..(Len(lines) - 1) : IsNameMarker(At(lines, idx))}
             start == BlockStart(lines, Head(matches), markers)
             end == BlockEnd(lines, Head(matches), markers)
             rest == software_ranges(lines, Tail(matches))
         IN  IF start = {} THEN rest
             ELSE <<Range(Max(start), FALSE,
                          IF end = {} THEN Len(lines) ELSE Min(end))>> \o rest

software_delete_duplicates(match_lines, lines) ==
    IF match_lines = {} THEN Removed(lines, 0, FALSE)
    ELSE LET ranges == software_ranges(lines, SortedDesc(match_lines))
         IN  Removed(DelRanges(lines, SortedRangesDesc(ranges)),
                     Cardinality(match_lines) - Len(ranges), FALSE)

\* a block of gi_interim_patches ends at the next marker or blank line
EndsInterimBlock(line) == IsCategoryMarker(line) \/ IsBlank(line)

\* removed_ranges of gi_interim_delete_duplicates: end stays None when no
\* marker or blank line follows within the window
RECURSIVE gi_interim_ranges(_, _)
gi_interim_ranges(lines, matches) ==
    IF matches = <<>> THEN <<>>
    ELSE LET all == 0..(Len(lines) - 1)
             start == BlockStart(lines, Head(matches),
                                 {idx \in all : IsCategoryMarker(At(lines, idx))})
             end == BlockEnd(lines, Head(matches),
                             {idx \in all : EndsInterimBlock(At(lines, idx))})
             rest == gi_interim_ranges(lines, Tail(matches))
         IN  IF start = {} THEN rest
             ELSE <<Range(Max(start), end = {},
                          IF end = {} THEN 0 ELSE Min(end))>> \o rest

gi_interim_delete_duplicates(match_lines, lines) ==
    IF match_lines = {} THEN Removed(lines, 0, FALSE)
    ELSE LET ranges == gi_interim_ranges(lines, SortedDesc(match_lines))
             errors == Cardinality(match_lines) - Len(ranges)
         IN  IF SortRaises(ranges) THEN Removed(lines, errors, TRUE)
             ELSE Removed(DelRanges(lines, SortedRangesDesc(ranges)), errors, FALSE)

\* for match_line in sorted(set(match_lines), reverse=True): del lines[match_line]
RECURSIVE DelLines(_, _)
DelLines(lines, matches) ==
    IF matches = <<>> THEN lines ELSE DelLines(DelAt(lines, Head(matches)), Tail(matches))

patch_delete_duplicates(match_lines, lines) ==
    IF match_lines = {} THEN Removed(lines, 0, FALSE)
    ELSE Removed(DelLines(lines, SortedDesc(match_lines)), 0, FALSE)

(***************************************************************************)
(* Duplicate Detector.                                                     *)
(***************************************************************************)
\* A variant of software_scan that never skips the line after a name match.
software_scan_no_skip(lines, key, each_patch, idx, skip, skip_next_line) ==
    {i \in 1..(Len(lines) - 1) :
        /\ \E h \in 1..(i - 1) :
              /\ IsHeader(At(lines, h), key)
              /\ \A j \in (h + 1)..i : ~IsBlank(At(lines, j))
              /\ \A j \in 1..(h - 1) : ~IsHeader(At(lines, j), key)
        /\ \/ name_match(At(lines, i)).matched
                 /\ Strip(name_match(At(lines, i)).group) = Strip(each_patch.name)
           \/ version_match(At(lines, i)).matched
                 /\ Strip(version_match(At(lines, i)).group) = Strip(each_patch.version)}

\* The scan of gi_software_search_duplicates and rdbms_software_search_duplicates
\* for one record, from line idx on: line 0 only resets the flags, the line
\* after a name match is skipped, lines are ignored up to the header `key`, and
\* the scan stops at the first blank line after it.
RECURSIVE software_scan(_, _, _, _, _, _)
software_scan(lines, key, each_patch, idx, skip, skip_next_line) ==
    IF idx >= Len(lines) THEN {}
    ELSE LET line == At(lines, idx)
             name == Strip(each_patch.name)
             version == Strip(each_patch.version)
         IN  IF idx = 0 THEN software_scan(lines, key, each_patch, 1, TRUE, FALSE)
             ELSE IF skip_next_line
               THEN software_scan(lines, key, each_patch, idx + 1, skip, FALSE)
             ELSE IF skip
               THEN software_scan(lines, key, each_patch, idx + 1,
                                  ~IsHeader(line, key), FALSE)
             ELSE IF IsBlank(line) THEN {}
             ELSE IF name_match(line).matched /\ Strip(name_match(line).group) = name
               THEN {idx} \cup software_scan(lines, key, each_patch, idx + 1, FALSE, TRUE)
             ELSE IF version_match(line).matched
                     /\ Strip(version_match(line).group) = version
               THEN {idx} \cup software_scan(lines, key, each_patch, idx + 1, FALSE, FALSE)
             ELSE software_scan(lines, key, each_patch, idx + 1, FALSE, FALSE)

\* A variant of software_duplicates that takes every name line of the section
\* for a duplicate, whatever its value.
software_duplicates_every_name(records, key, lines) ==
    {idx \in 1..(Len(lines) - 1) :
        /\ name_match(At(lines, idx)).matched
        /\ \E h \in 1..(idx - 1) :
              /\ IsHeader(At(lines, h), key)
              /\ \A j \in (h + 1)..idx : ~IsBlank(At(lines, j))}

\* duplicate_indices after the loop over the records
software_duplicates(records, key, lines) ==
    UNION {software_scan(lines, key, records[n], 0, TRUE, FALSE) : n \in 1..Len(records)}

gi_software_search_duplicates(gi_software, lines) ==
    software_delete_duplicates(software_duplicates(gi_software, "gi_software", lines), lines)

rdbms_software_search_duplicates(rdbms_software, lines) ==
    software_delete_duplicates(
        software_duplicates(rdbms_software, "rdbms_software", lines), lines)

\* The scan of gi_interim_search_duplicates for one record: a version match
\* skips the next line, a patchnum match does not.
RECURSIVE gi_interim_scan(_, _, _, _, _)
gi_interim_scan(lines, each_patch, idx, skip, skip_next_line) ==
    IF idx >= Len(lines) THEN {}
    ELSE LET line == At(lines, idx)
             version == Strip(each_patch.version)
             patchnum == Strip(each_patch.patchnum)
         IN  IF idx = 0 THEN gi_interim_scan(lines, each_patch, 1, TRUE, FALSE)
             ELSE IF skip_next_line
               THEN gi_interim_scan(lines, each_patch, idx + 1, skip, FALSE)
             ELSE IF skip
               THEN gi_interim_scan(lines, each_patch, idx + 1,
                                    ~IsHeader(line, "gi_interim_patches"), FALSE)
             ELSE IF IsBlank(line) THEN {}
             ELSE IF version_match(line).matched
                     /\ Strip(version_match(line).group) = version
               THEN {idx} \cup gi_interim_scan(lines, each_patch, idx + 1, FALSE, TRUE)
             ELSE IF patchnum_match(line).matched
                     /\ Strip(patchnum_match(line).group) = patchnum
               THEN {idx} \cup gi_interim_scan(lines, each_patch, idx + 1, FALSE, FALSE)
             ELSE gi_interim_scan(lines, each_patch, idx + 1, FALSE, FALSE)

gi_interim_duplicates(records, lines) ==
    UNION {gi_interim_scan(lines, records[n], 0, TRUE, FALSE) : n \in 1..Len(records)}

gi_interim_search_duplicates(gi_interim_patches, lines) ==
    gi_interim_delete_duplicates(gi_interim_duplicates(gi_interim_patches, lines), lines)

\* The indices a flow-line scan looks at: the lines after the first header
\* `key` at index >= first, up to the first blank line after it.
ScannedSpan(lines, key, first) ==
    LET headers == {i \in first..(Len(lines) - 1) : IsHeader(At(lines, i), key)}
        h == Min(headers)
        blanks == {i \in (h + 1)..(Len(lines) - 1) : IsBlank(At(lines, i))}
        stop == IF blanks = {} THEN Len(lines) ELSE Min(blanks)
    IN  IF headers = {} THEN {} ELSE (h + 1)..(stop - 1)

\* duplicate_indices of opatch_patch_search_duplicates for one record: line 0 is
\* never looked at, and the release alone decides
opatch_duplicates(patch, lines) ==
    {idx \in ScannedSpan(lines, "opatch_patches", 1) :
        /\ release_match(At(lines, idx)).matched
        /\ Strip(release_match(At(lines, idx)).group) = Strip(patch.release)}

\* the loop over the records: each record's duplicates are deleted, and the
\* file rewritten, before the next record is looked up
RECURSIVE opatch_patch_search_duplicates(_, _)
opatch_patch_search_duplicates(opatch_patches, lines) ==
    IF opatch_patches = <<>> THEN Removed(lines, 0, FALSE)
    ELSE opatch_patch_search_duplicates(
             Tail(opatch_patches),
             patch_delete_duplicates(opatch_duplicates(Head(opatch_patches), lines),
                                     lines).lines)

\* the lines gi_patch_search_duplicates and rdbms_patch_search_duplicates parse:
\* comment lines are passed over wherever they are
ParsedSpan(lines, key) ==
    {idx \in ScannedSpan(lines, key, 0) : ~StartsWithHash(At(lines, idx))}

\* line_yaml[0]['release'] raises (KeyError, TypeError or YAMLError) unless the
\* line parses to a one-item list of mappings
ParseRaises(lines, span) ==
    \E idx \in span : yaml_safe_load(At(lines, idx)).kind # "list"

gi_patch_is_duplicate(item, patch) ==
    \/ Strip(item.release) = Strip(patch.release)
    \/ Strip(item.patchnum) = Strip(patch.patchnum)

rdbms_patch_is_duplicate(item, patch) ==
    \/ Strip(item.category) = patch.category /\ Strip(item.release) = Strip(patch.release)
    \/ Strip(item.category) = patch.category /\ Strip(item.patchnum) = Strip(patch.patchnum)
    \/ Strip(item.patchnum) = Strip(patch.patchnum)

\* one record after the other: parse the span, delete the duplicates, rewrite
RECURSIVE patch_search_duplicates(_, _, _)
patch_search_duplicates(patches, key, lines) ==
    IF patches = <<>> THEN Removed(lines, 0, FALSE)
    ELSE LET span == ParsedSpan(lines, key)
             IsDuplicate(item) ==
                 IF key = "gi_patches" THEN gi_patch_is_duplicate(item, Head(patches))
                 ELSE rdbms_patch_is_duplicate(item, Head(patches))
             dups == {idx \in span : IsDuplicate(yaml_safe_load(At(lines, idx)).item)}
         IN  IF ParseRaises(lines, span) THEN Removed(lines, 0, TRUE)
             ELSE patch_search_duplicates(Tail(patches), key,
                                          patch_delete_duplicates(dups, lines).lines)

gi_patch_search_duplicates(gi_patches, lines) ==
    patch_search_duplicates(gi_patches, "gi_patches", lines)

rdbms_patch_search_duplicates(rdbms_patches, lines) ==
    patch_search_duplicates(rdbms_patches, "rdbms_patches", lines)

(***************************************************************************)
(* Record Formatter.  A block is the sequence of lines of one entry.       *)
(***************************************************************************)
\* Each file is appended with no line break before or after it, so the first
\* line of a file continues the last line of the file before it.
RECURSIVE gi_software_file_lines(_)
gi_software_file_lines(files) ==
    IF files = <<>> THEN <<>>
    ELSE IF Len(files) = 1 THEN <<FileHeadLine(files[1]), FileTailLine(files[1])>>
    ELSE LET rest == gi_software_file_lines(Tail(files))
         IN  <<FileHeadLine(files[1]), FileTailHeadLine(files[1], files[2])>>
                 \o Tail(rest)

gi_software_block(each_patch) ==
    <<NameLine(Strip(each_patch.name)), VersionLine(Strip(each_patch.version)),
      FilesLine>> \o gi_software_file_lines(each_patch.files)

Reverse(s) == [i \in 1..Len(s) |-> s[Len(s) + 1 - i]]

\* patches_list, reversed before it is returned
gi_software_compile_patch(gi_software) ==
    Reverse([n \in 1..Len(gi_software) |-> gi_software_block(gi_software[n])])

\* edition: [list |-> TRUE, items |-> the editions] or [list |-> FALSE, text |-> it]
rdbms_software_block(each_patch) ==
    <<NameLine(Strip(each_patch.name)), VersionLine(Strip(each_patch.version))>>
    \o (IF each_patch.edition.list
        THEN <<EditionsKeyLine>> \o
             [i \in 1..Len(each_patch.edition.items) |->
                 EditionItemLine(Strip(each_patch.edition.items[i]))]
        ELSE <<EditionsLine(Strip(each_patch.edition.text))>>)
    \o <<FilesLine>>
    \o [i \in 1..Len(each_patch.files) |-> FileLine(each_patch.files[i])]

rdbms_software_compile_patch(rdbms_software) ==
    [n \in 1..Len(rdbms_software) |-> rdbms_software_block(rdbms_software[n])]

gi_interim_block(each_patch) ==
    <<CategoryLine(Quoted(Strip(each_patch.category))),
      VersionLine(Strip(each_patch.version)),
      PatchnumLine(Quoted(Strip(each_patch.patchnum))),
      PatchutilLine(Quoted(Strip(each_patch.patchutil))),
      FilesLine>>
    \o [i \in 1..Len(each_patch.files) |-> FileLine(each_patch.files[i])]

gi_interim_compile_patch(gi_interim_patches) ==
    [n \in 1..Len(gi_interim_patches) |-> gi_interim_block(gi_interim_patches[n])]

opatch_patch_compile_patch(opatch_patches) ==
    [n \in 1..Len(opatch_patches) |-> <<OpatchLine(opatch_patches[n])>>]

(***************************************************************************)
(* Block Inserter.  An inserter leaves the lines of the file and one of    *)
(*   "success"       it printed its success message;                      *)
(*   "error_exit"    it printed an error and called sys.exit(1);          *)
(*   "error_return"  it printed an error and returned;                    *)
(*   "raised"        it died of an uncaught exception.                    *)
(***************************************************************************)
Inserted(lines, outcome) == [lines |-> lines, outcome |-> outcome]

AsBlocks(lines) == [i \in 1..Len(lines) |-> <<lines[i]>>]

HeaderIndices(lines, key) == {i \in 0..(Len(lines) - 1) : IsHeader(At(lines, i), key)}

\* A variant of software_insert_patch without the `else` of the for loop: when
\* no header is found the blocks go to the end of the file and success is printed.
software_insert_patch_appending(blocks, key, lines) ==
    LET headers == HeaderIndices(lines, key)
        at == IF headers = {} THEN Len(lines) ELSE Min(headers) + 1
    IN  Inserted(Flatten(InsertAll(AsBlocks(lines), at, blocks, 0)), "success")

\* gi_software_insert_patch and rdbms_software_insert_patch: every block goes
\* to index i + 1, right after the first header line
software_insert_patch(blocks, key, lines) ==
    LET headers == HeaderIndices(lines, key)
    IN  IF headers = {} THEN Inserted(lines, "error_exit")
        ELSE Inserted(Flatten(InsertAll(AsBlocks(lines), Min(headers) + 1, blocks, 0)),
                      "success")

gi_software_insert_patch(gi_software_patches, lines) ==
    software_insert_patch(gi_software_patches, "gi_software", lines)

rdbms_software_insert_patch(rdbms_software_patches, lines) ==
    software_insert_patch(rdbms_software_patches, "rdbms_software", lines)

\* every block goes to the index of the first blank line after the header; the
\* file is rewritten and success printed whether or not that line exists
gi_interim_insert_patch(gi_interim_patches, lines) ==
    LET headers == HeaderIndices(lines, "gi_interim_patches")
        blanks == {i \in Min(headers)..(Len(lines) - 1) : IsBlank(At(lines, i))}
    IN  IF headers = {} \/ blanks = {} THEN Inserted(lines, "success")
        ELSE Inserted(Flatten(InsertAll(AsBlocks(lines), Min(blanks),
                                        gi_interim_patches, 0)),
                      "success")

\* A variant of opatch_patch_insert_patch without the test `opatch_start is
\* None`: with no header the lines are appended to the file.
opatch_patch_insert_patch_unchecked(opatch_patches_patch, lines) ==
    LET headers == HeaderIndices(lines, "opatch_patches")
        opatch_start == IF headers = {} THEN Len(lines) ELSE Min(headers)
        tops == {j \in (opatch_start + 1)..(Len(lines) - 1) : IsTopLevelLine(At(lines, j))}
        opatch_end == IF tops = {} THEN Len(lines) ELSE Min(tops) - 1
    IN  Inserted(Flatten(InsertAll(AsBlocks(lines), opatch_end,
                                   opatch_patches_patch, 1)),
                 "success")

\* the lines go, in order, to opatch_end: the index before the first top-level
\* line after the header, or len(lines)
opatch_patch_insert_patch(opatch_patches_patch, lines) ==
    LET headers == HeaderIndices(lines, "opatch_patches")
        opatch_start == Min(headers)
        tops == {j \in (opatch_start + 1)..(Len(lines) - 1) : IsTopLevelLine(At(lines, j))}
        opatch_end == IF tops = {} THEN Len(lines) ELSE Min(tops) - 1
    IN  IF headers = {} THEN Inserted(lines, "error_exit")
        ELSE Inserted(Flatten(InsertAll(AsBlocks(lines), opatch_end,
                                        opatch_patches_patch, 1)),
                      "success")

\* The loop `for patch in patches: while idx < end: ...` of gi_patches_insert_patch
\* and rdbms_patches_insert_patch.  `lines` is the list in memory, `written` the
\* file on disk, rewritten after the while loop of each record; idx and both
\* flags keep their values from one record to the next unless a line was
\* inserted, and `patch_end` is never recomputed.
RECURSIVE patches_insert_loop(_, _, _, _, _, _, _, _)
patches_insert_loop(lines, written, patches, idx, category_match_found, category_base_match_found, patch_start, patch_end) ==
    IF patches = <<>> THEN Inserted(written, "success")
    ELSE IF idx >= patch_end
      THEN patches_insert_loop(lines, lines, Tail(patches), idx, category_match_found,
                               category_base_match_found, patch_start, patch_end)
    ELSE IF idx >= Len(lines) THEN Inserted(written, "raised")
    ELSE LET patch == Head(patches)
             line == At(lines, idx)
             parsed == yaml_safe_load(line)
             is_item == parsed.kind = "list"
             category_found ==
                 \/ category_match_found
                 \/ is_item /\ parsed.item.category = Strip(patch.category)
             base_found ==
                 \/ category_base_match_found
                 \/ is_item /\ category_found /\ parsed.item.base = Strip(patch.base)
             inserted == SubSeq(lines, 1, idx) \o <<PatchLine(patch)>> \o Drop(lines, idx)
         IN  IF ~category_base_match_found /\ IsBlank(line)
               THEN Inserted(written, "error_return")
             ELSE IF StartsWithHashDash(line)
               THEN patches_insert_loop(lines, written, patches, idx + 1,
                                        category_match_found, category_base_match_found,
                                        patch_start, patch_end)
             ELSE IF parsed.kind \in {"error", "other"} THEN Inserted(written, "raised")
             ELSE IF is_item /\ category_found /\ "base" \notin DOMAIN parsed.item
               THEN Inserted(written, "raised")
             ELSE IF base_found /\ (IsBlank(line) \/ StartsWithHash(line))
               THEN patches_insert_loop(inserted, inserted, Tail(patches), patch_start,
                                        FALSE, FALSE, patch_start, patch_end)
             ELSE IF idx + 1 = patch_end THEN Inserted(written, "error_return")
             ELSE patches_insert_loop(lines, written, patches, idx + 1, category_found,
                                      base_found, patch_start, patch_end)

\* the first loop of both functions: the start is the line after the last
\* header seen, the end two lines past the first blank line that follows a
\* header; {} stands for a name that was never assigned (or is None)
PatchStart(lines, key) ==
    LET headers == HeaderIndices(lines, key)
        blanks == {i \in Min(headers)..(Len(lines) - 1) : IsBlank(At(lines, i))}
        seen == IF blanks = {} THEN headers ELSE {h \in headers : h < Min(blanks)}
    IN  IF headers = {} THEN {} ELSE {Max(seen) + 1}

PatchEndAtBlank(lines, key) ==
    LET headers == HeaderIndices(lines, key)
        blanks == {i \in Min(headers)..(Len(lines) - 1) : IsBlank(At(lines, i))}
    IN  IF headers = {} \/ blanks = {} THEN {} ELSE {Min(blanks) + 2}

\* gi_patch_end is unbound when no blank line follows the header (or there is
\* no header), and the while loop then raises UnboundLocalError
gi_patches_insert_patch(gi_patches, lines) ==
    LET gi_patch_start == PatchStart(lines, "gi_patches")
        gi_patch_end == PatchEndAtBlank(lines, "gi_patches")
    IN  IF gi_patches = <<>> THEN Inserted(lines, "success")
        ELSE IF gi_patch_end = {} THEN Inserted(lines, "raised")
        ELSE patches_insert_loop(lines, lines, gi_patches, Max(gi_patch_start), FALSE,
                                 FALSE, Max(gi_patch_start), Max(gi_patch_end))

\* rdbms_patch_end is len(lines) when the file ends before a blank line
rdbms_patches_insert_patch(rdbms_patches, lines) ==
    LET rdbms_patch_start == PatchStart(lines, "rdbms_patches")
        at_blank == PatchEndAtBlank(lines, "rdbms_patches")
        rdbms_patch_end == IF at_blank = {} THEN Len(lines) ELSE Max(at_blank)
    IN  IF rdbms_patch_start = {} THEN Inserted(lines, "error_exit")
        ELSE patches_insert_loop(lines, lines, rdbms_patches, Max(rdbms_patch_start),
                                 FALSE, FALSE, Max(rdbms_patch_start), rdbms_patch_end)

(***************************************************************************)
(* main(): the sections are handled in a fixed order, each by its          *)
(* search-and-remove function and then its insert function.                *)
(***************************************************************************)
SectionOrder ==
    <<"gi_software", "gi_interim_patches", "rdbms_software", "opatch_patches",
      "gi_patches", "rdbms_patches">>

Sections == {SectionOrder[i] : i \in 1..Len(SectionOrder)}

SearchPc ==
    [gi_software |-> "gi_software_search_duplicates",
     gi_interim_patches |-> "gi_interim_search_duplicates",
     rdbms_software |-> "rdbms_software_search_duplicates",
     opatch_patches |-> "opatch_patch_search_duplicates",
     gi_patches |-> "gi_patch_search_duplicates",
     rdbms_patches |-> "rdbms_patch_search_duplicates"]

InsertPc ==
    [gi_software |-> "gi_software_insert_patch",
     gi_interim_patches |-> "gi_interim_insert_patch",
     rdbms_software |-> "rdbms_software_insert_patch",
     opatch_patches |-> "opatch_patch_insert_patch",
     gi_patches |-> "gi_patches_insert_patch",
     rdbms_patches |-> "rdbms_patches_insert_patch"]

\* A variant of PcFrom that goes on with the last section of the input at or
\* after position n, passing over the others.
RECURSIVE PcFromLast(_, _)
PcFromLast(n, data) ==
    IF n > Len(SectionOrder) THEN "exit"
    ELSE IF PcFromLast(n + 1, data) # "exit" THEN PcFromLast(n + 1, data)
    ELSE IF SectionOrder[n] \in DOMAIN data THEN SearchPc[SectionOrder[n]]
    ELSE "exit"

\* the first statement of main() at or after position n whose
\* `patch_data.get(section) is not None` holds; "exit" when main() returns
RECURSIVE PcFrom(_, _)
PcFrom(n, data) ==
    IF n > Len(SectionOrder) THEN "exit"
    ELSE IF SectionOrder[n] \in DOMAIN data THEN SearchPc[SectionOrder[n]]
    ELSE PcFrom(n + 1, data)

Position(section) == CHOOSE n \in 1..Len(SectionOrder) : SectionOrder[n] = section

\* A variant of OutputUnparsable for a main without the parse of the output
\* file (as the main of version_upgrade.py is).
OutputNeverParsed(lines) == FALSE

\* line i belongs to an entry written with a wide dash, whose lines are
\* indented one column more than the formatter's
InWideEntry(lines, i) ==
    \E w \in 1..i :
        /\ lines[w].k \in {"name_wide", "category_wide"}
        /\ \A m \in (w + 1)..i :
              lines[m].k \notin {"name", "category", "header", "blank", "top"}

\* yaml.safe_load of the whole output file raises YAMLError: for a line that
\* is no YAML, for a file item that starts on the line that ends another, and
\* for edition items left without their entry, directly under a section
\* header or under a line of other indentation, when the `files:` key of
\* their entry, less indented, comes after them
OutputUnparsable(lines) ==
    \/ \E i \in 1..Len(lines) : lines[i].k \in {"bad", "file_tail_head"}
    \/ \E i \in 1..Len(lines), j \in 1..Len(lines) :
          /\ i + 1 < j
          /\ lines[i].k = "header" \/ InWideEntry(lines, i)
          /\ lines[i].k \notin {"editions_key", "edition_item"}
          /\ lines[j].k = "files"
          /\ \A m \in (i + 1)..(j - 1) : lines[m].k = "edition_item"

Running == exit_code = -1

\* load_yaml(input_yml)
LoadYaml ==
    /\ pc = "load_yaml"
    /\ IF input_state \in {"missing", "malformed"}
       THEN /\ exit_code' = 1
            /\ pc' = "exit"
            /\ log' = Append(log, <<"error", "load_yaml">>)
       ELSE /\ exit_code' = exit_code
            /\ pc' = "preflight"
            /\ log' = Append(log, <<"loaded", "load_yaml">>)
    /\ UNCHANGED <<file, file0, input_state, patch_data, pre, args, result>>

\* the parse of the output file and the test `patch_data is None`
Preflight ==
    /\ pc = "preflight"
    /\ IF OutputUnparsable(file) \/ input_state = "empty"
       THEN /\ exit_code' = 1
            /\ pc' = "exit"
            /\ log' = Append(log, <<"error", "main">>)
       ELSE /\ pc' = PcFrom(1, patch_data)
            /\ exit_code' = IF pc' = "exit" THEN 0 ELSE exit_code
            /\ log' = log
    /\ UNCHANGED <<file, file0, input_state, patch_data, pre, args, result>>

\* A search function returned `removed` for `section`.
SearchStep(section, removed) ==
    /\ pc = SearchPc[section]
    /\ pre' = file
    /\ file' = removed.lines
    /\ log' = log \o (IF removed.errors > 0 THEN <<<<"error", SearchPc[section]>>>> ELSE <<>>)
                  \o (IF removed.raised THEN <<<<"traceback", SearchPc[section]>>>> ELSE <<>>)
    /\ pc' = IF removed.raised THEN "exit" ELSE InsertPc[section]
    /\ exit_code' = IF removed.raised THEN 1 ELSE exit_code
    /\ UNCHANGED <<file0, input_state, patch_data, args, result>>

\* An insert function left `inserted` for `section`.
InsertStep(section, inserted) ==
    /\ pc = InsertPc[section]
    /\ file' = inserted.lines
    /\ log' = Append(log, <<CASE inserted.outcome = "success" -> "success"
                              [] inserted.outcome = "raised" -> "traceback"
                              [] OTHER -> "error",
                            InsertPc[section]>>)
    /\ pc' = IF inserted.outcome \in {"error_exit", "raised"} THEN "exit"
             ELSE PcFrom(Position(section) + 1, patch_data)
    /\ exit_code' = IF inserted.outcome \in {"error_exit", "raised"} THEN 1
                    ELSE IF pc' = "exit" THEN 0 ELSE exit_code
    /\ UNCHANGED <<file0, input_state, patch_data, pre, args, result>>

GiSoftwareSearch ==
    SearchStep("gi_software", gi_software_search_duplicates(patch_data.gi_software, file))

GiSoftwareInsert ==
    InsertStep("gi_software",
               gi_software_insert_patch(gi_software_compile_patch(patch_data.gi_software),
                                        file))

GiInterimSearch ==
    SearchStep("gi_interim_patches",
               gi_interim_search_duplicates(patch_data.gi_interim_patches, file))

GiInterimInsert ==
    InsertStep("gi_interim_patches",
               gi_interim_insert_patch(
                   gi_interim_compile_patch(patch_data.gi_interim_patches), file))

RdbmsSoftwareSearch ==
    SearchStep("rdbms_software",
               rdbms_software_search_duplicates(patch_data.rdbms_software, file))

RdbmsSoftwareInsert ==
    InsertStep("rdbms_software",
               rdbms_software_insert_patch(
                   rdbms_software_compile_patch(patch_data.rdbms_software), file))

OpatchSearch ==
    SearchStep("opatch_patches",
               opatch_patch_search_duplicates(patch_data.opatch_patches, file))

OpatchInsert ==
    InsertStep("opatch_patches",
               opatch_patch_insert_patch(
                   opatch_patch_compile_patch(patch_data.opatch_patches), file))

GiPatchSearch ==
    SearchStep("gi_patches", gi_patch_search_duplicates(patch_data.gi_patches, file))

GiPatchInsert ==
    InsertStep("gi_patches", gi_patches_insert_patch(patch_data.gi_patches, file))

RdbmsPatchSearch ==
    SearchStep("rdbms_patches",
               rdbms_patch_search_duplicates(patch_data.rdbms_patches, file))

RdbmsPatchInsert ==
    InsertStep("rdbms_patches",
               rdbms_patches_insert_patch(patch_data.rdbms_patches, file))

(***************************************************************************)
(* The files and inputs the runs start from.                               *)
(***************************************************************************)
\* most records a section of the input holds
MaxBatch == 2

T(c) == <<c>>

\* the files listed with a software or interim entry
File1 ==
    [name |-> T("f"), sha256sum |-> T("s"), md5sum |-> T("m"),
     alt_name |-> T("g"), alt_sha256sum |-> T("t"), alt_md5sum |-> T("n")]

File2 ==
    [name |-> T("h"), sha256sum |-> T("s"), md5sum |-> T("m"),
     alt_name |-> T("i"), alt_sha256sum |-> T("t"), alt_md5sum |-> T("n")]

\* the record with two files listed
TwoFiles(record) == [record EXCEPT !.files = <<File1, File2>>]

Software(name, version) ==
    [name |-> name, version |-> version, files |-> <<File1>>,
     edition |-> [list |-> FALSE, text |-> <<"E", "E">>]]

SoftwareEditions(name, version) ==
    [name |-> name, version |-> version, files |-> <<File1>>,
     edition |-> [list |-> TRUE, items |-> <<<<"E", "E">>, <<"S", "E">>>>]]

Interim(version, patchnum) ==
    [category |-> T("H"), version |-> version, patchnum |-> patchnum,
     patchutil |-> T("u"), files |-> <<File1>>]

Opatch(release, patchnum) ==
    [release |-> release, patchnum |-> patchnum, patchfile |-> T("z"), md5sum |-> T("m")]

Patch(category, base, release, patchnum) ==
    [category |-> category, base |-> base, release |-> release, patchnum |-> patchnum,
     patchfile |-> T("z"), patch_subdir |-> T("d"), prereq_check |-> FALSE,
     method |-> <<"o", " ", "a">>, ocm |-> FALSE, upgrade |-> FALSE, md5sum |-> T("m")]

RU == <<"R", "U">>
PSU == <<"P", "S", "U">>

\* the entries a section of the file holds before the run, oldest last
Existing ==
    [gi_software |-> <<Software(T("a"), T("1")), Software(T("b"), T("2"))>>,
     gi_interim_patches |-> <<Interim(T("1"), T("3")), Interim(T("2"), T("4"))>>,
     rdbms_software |-> <<SoftwareEditions(T("a"), T("1")), Software(T("b"), T("2"))>>,
     opatch_patches |-> <<Opatch(T("7"), T("3")), Opatch(T("8"), T("4"))>>,
     gi_patches |-> <<Patch(RU, T("1"), T("7"), T("3")), Patch(PSU, T("1"), T("8"), T("4"))>>,
     rdbms_patches |-> <<Patch(RU, T("1"), T("7"), T("3")), Patch(PSU, T("1"), T("8"), T("4"))>>]

\* the records the input may hold for a section: values that are, and values
\* that are not, in the file; one value comes with white space around it, and
\* the software records of version 9 list two files
Records ==
    [gi_software |->
        {Software(n, T("1")) : n \in {T("a"), T("c")}}
        \cup {TwoFiles(Software(n, T("9"))) : n \in {T("a"), T("c")}},
     gi_interim_patches |->
        {Interim(v, p) : v \in {T("1"), T("9")}, p \in {T("3"), <<" ", "5">>}},
     rdbms_software |->
        {Software(n, v) : n \in {T("a"), T("c")}, v \in {T("1")}}
        \cup {TwoFiles(SoftwareEditions(n, v)) : n \in {T("a"), T("c")}, v \in {T("9")}},
     opatch_patches |-> {Opatch(r, T("5")) : r \in {T("7"), T("9")}},
     gi_patches |->
        {Patch(c, T("1"), r, n) : c \in {RU, PSU}, r \in {T("7"), T("9")},
                                  n \in {T("3"), T("5")}},
     rdbms_patches |->
        {Patch(c, b, r, T("5")) : c \in {RU}, b \in {T("1"), T("2")},
                                  r \in {T("7"), T("9")}}
        \cup {Patch(PSU, T("1"), T("9"), T("3"))}]

\* the length of the long batches of gi_patches and rdbms_patches
LongBatch == 3

\* the records of the long batches: new releases of a category and base that
\* the section holds
LongRecords ==
    {Patch(RU, T("1"), r, n) : <<r, n>> \in {<<T("5"), T("1")>>, <<T("6"), T("2")>>, <<T("9"), T("5")>>}}

\* the block of lines of an entry as the file holds it
EntryBlock(section, record) ==
    CASE section = "gi_software" -> gi_software_block(record)
      [] section = "rdbms_software" -> rdbms_software_block(record)
      [] section = "gi_interim_patches" -> gi_interim_block(record)
      [] section = "opatch_patches" -> <<OpatchLine(record)>>
      [] OTHER -> <<PatchLine(record)>>

\* How a section stands in the file:
\*   "absent"    no header line;         "empty"  header, blank line;
\*   "one"       header, entry, blank;   "two"    header, two entries, blank;
\*   "gap"       header, entry, two blank lines;
\*   "open"      header and entry, directly followed by the next section or EOF;
\*   "two_open"  header and two entries, directly followed likewise;
\*   "wide"      header, entry written with a wide dash, blank;
\*   "wide_two"  header, entry written with a wide dash, the same entry
\*               written as the formatter does, blank;
\*   "swapped"   header, entry with its keys in another order, blank;
\*   "bare"      header, directly followed by the next section or EOF.
Shapes ==
    {"absent", "empty", "one", "two", "gap", "open", "two_open", "wide", "wide_two",
     "swapped", "bare"}

\* the block of an entry whose keys are not in the formatter's order: the
\* version is the last key of a software entry, and follows the patchnum in an
\* entry of gi_interim_patches
SwappedBlock(section, record) ==
    LET block == EntryBlock(section, record)
    IN  CASE Head(block).k = "name" ->
                <<block[1]>> \o SubSeq(block, 3, Len(block)) \o <<block[2]>>
          [] Head(block).k = "category" ->
                <<block[1], block[3], block[2]>> \o SubSeq(block, 4, Len(block))
          [] OTHER -> block

\* the block of an entry whose first line has two spaces after the dash
WideBlock(section, record) ==
    LET block == EntryBlock(section, record)
    IN  CASE Head(block).k = "name" -> <<WideNameLine(Head(block).text)>> \o Tail(block)
          [] Head(block).k = "category" ->
                <<WideCategoryLine(Head(block).text)>> \o Tail(block)
          [] OTHER -> block

SectionLines(section, shape) ==
    LET e == Existing[section]
        entries == CASE shape \in {"one", "gap", "open"} -> EntryBlock(section, e[1])
                     [] shape \in {"two", "two_open"} ->
                          EntryBlock(section, e[1]) \o EntryBlock(section, e[2])
                     [] shape = "wide" -> WideBlock(section, e[1])
                     [] shape = "swapped" -> SwappedBlock(section, e[1])
                     [] shape = "wide_two" ->
                          WideBlock(section, e[1]) \o EntryBlock(section, e[1])
                     [] OTHER -> <<>>
    IN  IF shape = "absent" THEN <<>>
        ELSE <<HeaderLine(section)>> \o entries
                 \o (CASE shape \in {"open", "two_open", "bare"} -> <<>>
                       [] shape = "gap" -> <<BlankLine, BlankLine>>
                       [] OTHER -> <<BlankLine>>)

\* The file: the six sections in order; `framed` puts another top-level
\* variable before the first and after the last of them, `broken` ends the
\* file with a line that is not YAML.
Layout(shape, framed, broken) ==
    (IF framed THEN <<TopLine>> ELSE <<>>)
    \o Flatten([n \in 1..Len(SectionOrder) |->
                   SectionLines(SectionOrder[n], shape[SectionOrder[n]])])
    \o (IF framed THEN <<TopLine>> ELSE <<>>)
    \o (IF broken THEN <<BadLine>> ELSE <<>>)

Batches(section, n) == UNION {[1..m -> Records[section]] : m \in 1..n}

DefaultShape == [s \in Sections |-> "one"]

\* One section in the input, in every shape, with every batch; or two
\* sections, each present or absent, with one record each; or long batches
\* of gi_patches and rdbms_patches; or opatch_patches as a bare header that
\* is the last section of the file.
Scenarios ==
    UNION {
      {[data |-> [s \in {sec} |-> b], shape |-> [DefaultShape EXCEPT ![sec] = sh]] :
          sh \in Shapes, b \in Batches(sec, MaxBatch)} :
      sec \in Sections}
    \cup
    UNION {
      {[data |-> [s \in {s1, s2} |-> IF s = s1 THEN <<r1>> ELSE <<r2>>],
        shape |-> [DefaultShape EXCEPT ![s1] = sh1, ![s2] = sh2]] :
          sh1 \in {"absent", "one"}, sh2 \in {"absent", "one"},
          r1 \in Records[s1], r2 \in Records[s2]} :
      <<s1, s2>> \in {p \in Sections \X Sections : Position(p[1]) < Position(p[2])}}
    \cup
    UNION {
      {[data |-> [s \in {sec} |-> b], shape |-> [DefaultShape EXCEPT ![sec] = sh]] :
          sh \in {"one", "two"}, b \in [1..LongBatch -> LongRecords]} :
      sec \in {"gi_patches", "rdbms_patches"}}
    \cup
    {[data |-> [s \in {"opatch_patches"} |-> b],
      shape |-> [DefaultShape EXCEPT !["opatch_patches"] = "bare",
                                     !["gi_patches"] = "absent",
                                     !["rdbms_patches"] = "absent"]] :
        b \in Batches("opatch_patches", MaxBatch)}

\* The run starts on a file that parses, or on one that does not; or the
\* input file is missing, malformed or empty.
Init ==
    /\ \E sc \in Scenarios, framed \in BOOLEAN, broken \in BOOLEAN,
          state \in {"ok", "missing", "malformed", "empty"} :
          /\ broken \/ state # "ok" => Cardinality(DOMAIN sc.data) = 1 /\ framed
          /\ broken => state = "ok"
          /\ input_state = state
          /\ patch_data = IF state = "ok" THEN sc.data ELSE <<>>
          /\ file = Layout(sc.shape, framed, broken)
    /\ file0 = file
    /\ pre = file
    /\ pc = "load_yaml"
    /\ exit_code = -1
    /\ log = <<>>
    /\ args = <<>>
    /\ result = <<>>

Next ==
    \/ LoadYaml
    \/ Preflight
    \/ GiSoftwareSearch
    \/ GiSoftwareInsert
    \/ GiInterimSearch
    \/ GiInterimInsert
    \/ RdbmsSoftwareSearch
    \/ RdbmsSoftwareInsert
    \/ OpatchSearch
    \/ OpatchInsert
    \/ GiPatchSearch
    \/ GiPatchInsert
    \/ RdbmsPatchSearch
    \/ RdbmsPatchInsert

Spec == Init /\ [][Next]_vars

(***************************************************************************)
(* The removers on their own: software_delete_duplicates and               *)
(* gi_interim_delete_duplicates called with a file and a set of match      *)
(* lines of one section.                                                   *)
(***************************************************************************)
\* most match lines handed to a remover
MaxMatches == 2

\* `lines` up to the last line of `section`
UpToSection(lines, section) ==
    LET later == {i \in 0..(Len(lines) - 1) :
                     /\ At(lines, i).k \in {"header", "top"}
                     /\ \E h \in HeaderIndices(lines, section) : h < i}
    IN  IF later = {} THEN lines ELSE SubSeq(lines, 1, Min(later))

\* the lines of `section` a detector can report: those of the fields it compares
MatchCandidates(lines, section) ==
    LET headers == HeaderIndices(lines, section)
        later == {i \in 0..(Len(lines) - 1) :
                     /\ At(lines, i).k \in {"header", "top"}
                     /\ \E h \in headers : h < i}
        end == IF later = {} THEN Len(lines) ELSE Min(later)
    IN  {i \in 0..(end - 1) :
            /\ \E h \in headers : h < i
            /\ At(lines, i).k \in (IF section = "gi_interim_patches"
                                   THEN {"version", "patchnum"}
                                   ELSE {"name", "name_wide", "version"})}

RemoverSections == {"gi_software", "rdbms_software", "gi_interim_patches"}

InitRemove ==
    /\ \E section \in RemoverSections,
          shape \in {"one", "two", "open", "two_open", "wide", "wide_two", "swapped"},
          framed \in BOOLEAN, cut \in BOOLEAN :
          LET whole == Layout([DefaultShape EXCEPT ![section] = shape], framed, FALSE)
              lines == IF cut THEN UpToSection(whole, section) ELSE whole
          IN  \E match_lines \in SUBSET MatchCandidates(lines, section) :
                  /\ match_lines # {}
                  /\ Cardinality(match_lines) <= MaxMatches
                  /\ args = [section |-> section, match_lines |-> match_lines,
                             lines |-> lines]
    /\ file = args.lines
    /\ file0 = file
    /\ pre = file
    /\ pc = "call"
    /\ input_state = "ok"
    /\ patch_data = <<>>
    /\ exit_code = -1
    /\ log = <<>>
    /\ result = <<>>

RemoverReturns(removed) ==
    /\ pc = "call"
    /\ result' = removed
    /\ file' = removed.lines
    /\ pc' = "return"
    /\ UNCHANGED <<file0, input_state, patch_data, exit_code, log, pre, args>>

SoftwareDelete ==
    /\ args.section \in {"gi_software", "rdbms_software"}
    /\ RemoverReturns(software_delete_duplicates(args.match_lines, args.lines))

GiInterimDelete ==
    /\ args.section = "gi_interim_patches"
    /\ RemoverReturns(gi_interim_delete_duplicates(args.match_lines, args.lines))

NextRemove ==
    \/ SoftwareDelete
    \/ GiInterimDelete

SpecRemove == InitRemove /\ [][NextRemove]_vars

(***************************************************************************)
(* The formatters and the detectors' field extraction on their own: one    *)
(* record is formatted, then the fields the section's detector compares    *)
(* are read back from the lines.                                           *)
(***************************************************************************)
\* longest value of a field
MaxValLen == 2

Alphabet == {"1", SPACE, QUOTE, COMMA}

Values == UNION {[1..n -> Alphabet] : n \in 0..MaxValLen}

\* the fields the detector of a section compares
IdentityFields(section) ==
    CASE section \in {"gi_software", "rdbms_software"} -> {"name", "version"}
      [] section = "gi_interim_patches" -> {"version", "patchnum"}
      [] section = "opatch_patches" -> {"release"}
      [] section = "gi_patches" -> {"release", "patchnum"}
      [] OTHER -> {"category", "release", "patchnum"}

\* the fields of a record that the formatter writes as text
TextFields(section) ==
    CASE section \in {"gi_software", "rdbms_software"} -> {"name", "version"}
      [] section = "gi_interim_patches" -> {"category", "version", "patchnum", "patchutil"}
      [] section = "opatch_patches" -> {"release", "patchnum", "patchfile", "md5sum"}
      [] OTHER -> {"category", "base", "release", "patchnum", "patchfile",
                   "patch_subdir", "method", "md5sum"}

DefaultRecord(section) ==
    CASE section \in {"gi_software", "rdbms_software"} -> Software(T("c"), T("9"))
      [] section = "gi_interim_patches" -> Interim(T("9"), T("5"))
      [] section = "opatch_patches" -> Opatch(T("9"), T("5"))
      [] OTHER -> Patch(RU, T("1"), T("9"), T("5"))

\* the lines the formatter of `section` makes of one record; gi_patches and
\* rdbms_patches format the line at the insertion itself
FormatRecord(section, record) ==
    CASE section = "gi_software" -> gi_software_compile_patch(<<record>>)[1]
      [] section = "rdbms_software" -> rdbms_software_compile_patch(<<record>>)[1]
      [] section = "gi_interim_patches" -> gi_interim_compile_patch(<<record>>)[1]
      [] section = "opatch_patches" -> opatch_patch_compile_patch(<<record>>)[1]
      [] OTHER -> <<PatchLine(record)>>

\* `m.group(1).strip()` for the lines the pattern matches; `matches` holds the
\* result of the pattern on each line
Groups(matches) ==
    {Strip(matches[i].group) : i \in {j \in 1..Len(matches) : matches[j].matched}}

\* `line_yaml[0][field].strip()` for the lines of the block; no value when
\* yaml.safe_load raises
Loaded(lines, field) ==
    {Strip(yaml_safe_load(lines[i]).item[field]) :
        i \in {j \in 1..Len(lines) : yaml_safe_load(lines[j]).kind = "list"}}

\* the values the detector of `section` reads for `field` from `lines`
ExtractField(section, field, lines) ==
    CASE section \in {"gi_patches", "rdbms_patches"} -> Loaded(lines, field)
      [] field = "name" -> Groups([i \in 1..Len(lines) |-> name_match(lines[i])])
      [] field = "version" -> Groups([i \in 1..Len(lines) |-> version_match(lines[i])])
      [] field = "patchnum" -> Groups([i \in 1..Len(lines) |-> patchnum_match(lines[i])])
      [] OTHER -> Groups([i \in 1..Len(lines) |-> release_match(lines[i])])

InitFormat ==
    /\ \E section \in Sections :
          \E field \in TextFields(section), value \in Values :
              args = [section |-> section,
                      record |-> [DefaultRecord(section) EXCEPT ![field] = value]]
    /\ pc = "compile_patch"
    /\ result = <<>>
    /\ file = <<>>
    /\ file0 = <<>>
    /\ pre = <<>>
    /\ input_state = "ok"
    /\ patch_data = <<>>
    /\ exit_code = -1
    /\ log = <<>>

CompilePatch ==
    /\ pc = "compile_patch"
    /\ result' = [lines |-> FormatRecord(args.section, args.record)]
    /\ pc' = "search_duplicates"
    /\ UNCHANGED <<file, file0, input_state, patch_data, exit_code, log, pre, args>>

ExtractIdentity ==
    /\ pc = "search_duplicates"
    /\ result' = [lines |-> result.lines,
                  identity |-> [field \in IdentityFields(args.section) |->
                                   ExtractField(args.section, field, result.lines)]]
    /\ pc' = "extracted"
    /\ UNCHANGED <<file, file0, input_state, patch_data, exit_code, log, pre, args>>

NextFormat ==
    \/ CompilePatch
    \/ ExtractIdentity

SpecFormat == InitFormat /\ [][NextFormat]_vars

(***************************************************************************)
(* Two runs of main() on one output file.  Every function opens the file,  *)
(* reads all its lines, closes it, and later opens it again to write the   *)
(* list it holds in memory; nothing is locked in between.  Each run brings *)
(* one record of one section.  pc, exit_code, patch_data and args are      *)
(* functions of the run; log is the order of the reads and writes.         *)
(***************************************************************************)
Runs == {1, 2}

ConcurrentSections == {"gi_software", "opatch_patches"}

\* duplicate_indices, as the search function computes them from the lines it read
MatchLines(section, record, lines) ==
    IF section = "gi_software" THEN software_duplicates(<<record>>, section, lines)
    ELSE opatch_duplicates(record, lines)

\* `lines[idx]` with idx = match_line raises IndexError on a list that is
\* shorter than the one the indices were found in
DeleteRaises(match_lines, lines) == \E m \in match_lines : m >= Len(lines)

DeleteWritten(section, match_lines, lines) ==
    IF section = "gi_software" THEN software_delete_duplicates(match_lines, lines)
    ELSE patch_delete_duplicates(match_lines, lines)

\* A variant of InsertWritten for an insert function that would take the
\* lines from the disk at the moment it writes.
InsertWrittenOnDisk(section, record, lines, on_disk) ==
    IF section = "gi_software"
      THEN gi_software_insert_patch(gi_software_compile_patch(<<record>>), on_disk)
    ELSE opatch_patch_insert_patch(opatch_patch_compile_patch(<<record>>), on_disk)

\* what the insert function writes: the lines it read with the record put in,
\* whatever the file holds on disk by then
InsertWritten(section, record, lines, on_disk) ==
    IF section = "gi_software"
      THEN gi_software_insert_patch(gi_software_compile_patch(<<record>>), lines)
    ELSE opatch_patch_insert_patch(opatch_patch_compile_patch(<<record>>), lines)

InitConcurrent ==
    /\ \E sh1 \in {"empty", "one", "two"}, sh2 \in {"empty", "one", "two"} :
          file = Layout([DefaultShape EXCEPT !["gi_software"] = sh1,
                                             !["opatch_patches"] = sh2], FALSE, FALSE)
    /\ file0 = file
    /\ patch_data \in [Runs -> UNION {[section : {sec}, record : Records[sec]] :
                                         sec \in ConcurrentSections}]
    /\ pc = [p \in Runs |-> "search_duplicates"]
    /\ exit_code = [p \in Runs |-> -1]
    /\ args = [p \in Runs |-> [match_lines |-> {}, lines |-> <<>>]]
    /\ log = <<>>
    /\ input_state = "ok"
    /\ pre = <<>>
    /\ result = <<>>

\* run p goes to `label`; `op` is what it did to the file
RunStep(p, op, label, code) ==
    /\ pc' = [pc EXCEPT ![p] = label]
    /\ exit_code' = [exit_code EXCEPT ![p] = code]
    /\ log' = Append(log, <<p, op>>)
    /\ UNCHANGED <<file0, input_state, patch_data, pre, result>>

\* the search function reads the file and looks the record up
SearchRead(p) ==
    /\ pc[p] = "search_duplicates"
    /\ LET found == MatchLines(patch_data[p].section, patch_data[p].record, file)
       IN  /\ args' = [args EXCEPT ![p] = [match_lines |-> found, lines |-> file]]
           /\ RunStep(p, "search_read",
                      IF found = {} THEN "insert_read" ELSE "delete_read", -1)
    /\ UNCHANGED file

\* the delete function reads the file again
DeleteRead(p) ==
    /\ pc[p] = "delete_read"
    /\ args' = [args EXCEPT ![p].lines = file]
    /\ RunStep(p, "delete_read", "delete_write", -1)
    /\ UNCHANGED file

\* and writes it without the lines at the indices the search found
DeleteWrite(p) ==
    /\ pc[p] = "delete_write"
    /\ LET section == patch_data[p].section
           removed == DeleteWritten(section, args[p].match_lines, args[p].lines)
       IN  IF DeleteRaises(args[p].match_lines, args[p].lines)
             THEN RunStep(p, "raised", "exit", 1) /\ UNCHANGED file
           ELSE file' = removed.lines /\ RunStep(p, "delete_write", "insert_read", -1)
    /\ UNCHANGED args

\* the insert function reads the file
InsertRead(p) ==
    /\ pc[p] = "insert_read"
    /\ args' = [args EXCEPT ![p].lines = file]
    /\ IF HeaderIndices(file, patch_data[p].section) = {}
         THEN RunStep(p, "error", "exit", 1)
       ELSE RunStep(p, "insert_read", "insert_write", -1)
    /\ UNCHANGED file

\* and writes it with the record put in
InsertWrite(p) ==
    /\ pc[p] = "insert_write"
    /\ file' = InsertWritten(patch_data[p].section, patch_data[p].record,
                             args[p].lines, file).lines
    /\ RunStep(p, "insert_write", "exit", 0)
    /\ UNCHANGED args

NextConcurrent ==
    \/ \E p \in Runs : SearchRead(p)
    \/ \E p \in Runs : DeleteRead(p)
    \/ \E p \in Runs : DeleteWrite(p)
    \/ \E p \in Runs : InsertRead(p)
    \/ \E p \in Runs : InsertWrite(p)

SpecConcurrent == InitConcurrent /\ [][NextConcurrent]_vars

(***************************************************************************)
(* common/inventory_generator.py: AnsibleInventoryGenerator.               *)
(* A str is a sequence of pieces of text, "" the empty sequence; the value *)
(* of CLUSTER_TYPE is spelled letter by letter.  os.getenv gives None for  *)
(* a variable that is not set.  Here `args` holds the environment and      *)
(* output_dir, `patch_data` the generator object, `file` the directories   *)
(* and files on disk, `pre` the inventory built, `log` what was printed,   *)
(* `result` what generate_inventory returned.                              *)
(***************************************************************************)
None == [set |-> FALSE, text |-> <<>>]

Str(text) == [set |-> TRUE, text |-> text]

\* `not value`
Falsy(value) == ~value.set \/ value.text = <<>>

\* the value in an f-string
Text(value) == IF value.set THEN value.text ELSE <<"None">>

\* str.upper(), letter by letter
UpperLetter(c) ==
    CASE c = "r" -> "R" [] c = "a" -> "A" [] c = "c" -> "C" [] c = "n" -> "N"
      [] c = "o" -> "O" [] c = "e" -> "E" [] c = "d" -> "D" [] c = "g" -> "G"
      [] OTHER -> c

upper(s) == [i \in 1..Len(s) |-> UpperLetter(s[i])]

\* AnsibleInventoryGenerator.__init__ without env_file
Generator(env) ==
    [ssh_user |-> env.INSTANCE_SSH_USER,
     ssh_key |-> env.INSTANCE_SSH_KEY,
     hostgroup_name |-> env.INSTANCE_HOSTGROUP_NAME,
     hostname |-> env.INSTANCE_HOSTNAME,
     ip_addr |-> env.INSTANCE_IP_ADDR,
     db_name |-> env.ORA_DB_NAME,
     cluster_type |-> env.CLUSTER_TYPE,
     cluster_config_json |-> env.CLUSTER_CONFIG_JSON,
     primary_ip_addr |-> env.PRIMARY_IP_ADDR]

\* A variant of single_instance_required_vars that lists INSTANCE_HOSTNAME first.
single_instance_required_vars_hostname_first(self) ==
    <<<<"INSTANCE_HOSTNAME", self.hostname>>,
      <<"INSTANCE_SSH_USER", self.ssh_user>>,
      <<"INSTANCE_SSH_KEY", self.ssh_key>>,
      <<"INSTANCE_HOSTGROUP_NAME", self.hostgroup_name>>,
      <<"INSTANCE_IP_ADDR", self.ip_addr>>,
      <<"ORA_DB_NAME", self.db_name>>>>

single_instance_required_vars(self) ==
    <<<<"INSTANCE_SSH_USER", self.ssh_user>>,
      <<"INSTANCE_SSH_KEY", self.ssh_key>>,
      <<"INSTANCE_HOSTGROUP_NAME", self.hostgroup_name>>,
      <<"INSTANCE_IP_ADDR", self.ip_addr>>,
      <<"ORA_DB_NAME", self.db_name>>,
      <<"INSTANCE_HOSTNAME", self.hostname>>>>

rac_required_vars(self) ==
    <<<<"INSTANCE_SSH_USER", self.ssh_user>>,
      <<"INSTANCE_SSH_KEY", self.ssh_key>>,
      <<"INSTANCE_HOSTGROUP_NAME", self.hostgroup_name>>,
      <<"INSTANCE_IP_ADDR", self.ip_addr>>,
      <<"ORA_DB_NAME", self.db_name>>,
      <<"CLUSTER_CONFIG_JSON", self.cluster_config_json>>,
      <<"PRIMARY_IP_ADDR", self.primary_ip_addr>>>>

\* [name for name, value in required_vars if not value]
RECURSIVE missing_vars(_)
missing_vars(required_vars) ==
    IF required_vars = <<>> THEN <<>>
    ELSE (IF Falsy(Head(required_vars)[2]) THEN <<Head(required_vars)[1]>> ELSE <<>>)
         \o missing_vars(Tail(required_vars))

validate_single_instance_vars(self) ==
    missing_vars(single_instance_required_vars(self)) = <<>>

validate_rac_vars(self) == missing_vars(rac_required_vars(self)) = <<>>

\* A variant of is_rac that compares the value as it is written.
is_rac_as_written(self) ==
    ~Falsy(self.cluster_type) /\ self.cluster_type.text = <<"R", "A", "C">>

\* `self.cluster_type and self.cluster_type.upper() == 'RAC'`, as a condition
is_rac(self) ==
    ~Falsy(self.cluster_type) /\ upper(self.cluster_type.text) = <<"R", "A", "C">>

generate_filename(self) ==
    IF is_rac(self) THEN <<"inventory_">> \o Text(self.db_name) \o <<"_RAC.yml">>
    ELSE <<"inventory_">> \o Text(self.hostname) \o <<"_">> \o Text(self.db_name) \o <<".yml">>

generate_single_instance_inventory(self) ==
    [group |-> self.hostgroup_name,
     hosts |-> [h \in {self.hostname} |->
                   [ansible_ssh_host |-> self.ip_addr,
                    ansible_ssh_user |-> self.ssh_user,
                    ansible_ssh_private_key_file |-> self.ssh_key]]]

\* json.loads(self.cluster_config_json)[0]: one cluster with one node, or an
\* empty list, on which [0] raises IndexError
ClusterJson == Str(<<"[{cluster}]">>)
EmptyJson == Str(<<"[]">>)

generate_rac_raises(self) == self.cluster_config_json # ClusterJson

generate_rac_inventory(self) ==
    [group |-> self.hostgroup_name,
     hosts |-> [h \in {Str(<<"server-s001">>)} |->
                   [ansible_ssh_host |-> Str(<<"192.168.0.1">>),
                    ansible_ssh_user |-> self.ssh_user,
                    ansible_ssh_private_key_file |-> self.ssh_key]],
     vars |-> <<"scan_name">>]

\* os.path.exists
Exists(disk, path) == path \in disk.dirs \/ path \in disk.plain

InventoryEnvs ==
    [INSTANCE_SSH_USER : {None, Str(<<>>), Str(<<"ansible">>)},
     INSTANCE_SSH_KEY : {None, Str(<<"key">>)},
     INSTANCE_HOSTGROUP_NAME : {None, Str(<<"gce">>)},
     INSTANCE_IP_ADDR : {None, Str(<<>>), Str(<<"192.168.0.1">>)},
     ORA_DB_NAME : {None, Str(<<"test">>)},
     INSTANCE_HOSTNAME : {None, Str(<<>>), Str(<<"oracle-test-01">>)},
     CLUSTER_TYPE : {None, Str(<<>>), Str(<<"R", "A", "C">>), Str(<<"r", "A", "c">>),
                     Str(<<"N", "O", "N", "E">>), Str(<<"R", "A", "C", "1">>)},
     CLUSTER_CONFIG_JSON : {None, ClusterJson, EmptyJson},
     PRIMARY_IP_ADDR : {None, Str(<<"192.168.0.2">>)}]

\* output_dir: the current directory, a directory, a path that does not
\* exist, a path that is a regular file
OutputDirs == {".", "inventories", "new_inventories", "notes.txt"}

InitInventory ==
    /\ args \in [env : InventoryEnvs, output_dir : OutputDirs]
    /\ file = [dirs |-> {".", "inventories"}, plain |-> {"notes.txt"}, files |-> {}]
    /\ file0 = file
    /\ patch_data = <<>>
    /\ pc = "__init__"
    /\ exit_code = -1
    /\ log = <<>>
    /\ pre = <<>>
    /\ input_state = "ok"
    /\ result = "none"

Construct ==
    /\ pc = "__init__"
    /\ patch_data' = Generator(args.env)
    /\ pc' = "generate_inventory"
    /\ UNCHANGED <<file, file0, input_state, exit_code, log, pre, args, result>>

\* generate_inventory up to the validation of the variables
Validate ==
    /\ pc = "generate_inventory"
    /\ LET self == patch_data
           required == IF is_rac(self) THEN rac_required_vars(self)
                       ELSE single_instance_required_vars(self)
           valid == IF is_rac(self) THEN validate_rac_vars(self)
                    ELSE validate_single_instance_vars(self)
           deployment == IF is_rac(self) THEN "RAC" ELSE "single-instance"
       IN  IF valid
             THEN /\ pc' = IF is_rac(self) THEN "generate_rac_inventory"
                           ELSE "generate_single_instance_inventory"
                  /\ UNCHANGED <<log, result>>
           ELSE /\ log' = Append(log, [msg |-> "Missing required environment variables",
                                       deployment |-> deployment,
                                       vars |-> missing_vars(required)])
                /\ result' = "False"
                /\ pc' = "returned"
    /\ UNCHANGED <<file, file0, input_state, patch_data, exit_code, pre, args>>

\* the inventory dictionary; generate_rac_inventory raises on a list without
\* a first element, and nothing catches it
Generate ==
    /\ pc \in {"generate_rac_inventory", "generate_single_instance_inventory"}
    /\ LET self == patch_data
       IN  IF pc = "generate_rac_inventory" /\ generate_rac_raises(self)
             THEN pc' = "returned" /\ result' = "raised" /\ UNCHANGED pre
           ELSE /\ pre' = [inventory |-> IF pc = "generate_rac_inventory"
                                           THEN generate_rac_inventory(self)
                                         ELSE generate_single_instance_inventory(self),
                           filename |-> generate_filename(self)]
                /\ pc' = "makedirs"
                /\ UNCHANGED result
    /\ UNCHANGED <<file, file0, input_state, patch_data, exit_code, log, args>>

\* `if output_dir != '.' and not os.path.exists(output_dir)`: os.makedirs makes
\* the directory or raises OSError
MakeDirs ==
    /\ pc = "makedirs"
    /\ IF args.output_dir # "." /\ ~Exists(file, args.output_dir)
         THEN \/ /\ file' = [file EXCEPT !.dirs = @ \cup {args.output_dir}]
                 /\ log' = Append(log, [msg |-> "Created output directory"])
                 /\ pc' = "write"
                 /\ UNCHANGED result
              \/ /\ log' = Append(log, [msg |-> "Error creating output directory"])
                 /\ result' = "False"
                 /\ pc' = "returned"
                 /\ UNCHANGED file
       ELSE pc' = "write" /\ UNCHANGED <<file, log, result>>
    /\ UNCHANGED <<file0, input_state, patch_data, exit_code, pre, args>>

\* open(filepath, 'w') and f.write: the file is written, or open raises
\* IOError (always so under a path that is no directory), or write does,
\* leaving an empty file
WriteInventory ==
    /\ pc = "write"
    /\ LET path == <<args.output_dir, pre.filename>>
           failed == /\ log' = Append(log, [msg |-> "Error writing inventory file"])
                     /\ result' = "False"
       IN  \/ /\ args.output_dir \in file.dirs
              /\ file' = [file EXCEPT !.files = @ \cup {[path |-> path,
                                                         content |-> pre.inventory]}]
              /\ log' = Append(log, [msg |-> "Successfully generated YAML inventory file"])
              /\ result' = "True"
           \/ failed /\ UNCHANGED file
           \/ /\ args.output_dir \in file.dirs
              /\ file' = [file EXCEPT !.files = @ \cup {[path |-> path, content |-> <<>>]}]
              /\ failed
    /\ pc' = "returned"
    /\ UNCHANGED <<file0, input_state, patch_data, exit_code, pre, args>>

NextInventory ==
    \/ Construct
    \/ Validate
    \/ Generate
    \/ MakeDirs
    \/ WriteInventory

SpecInventory == InitInventory /\ [][NextInventory]_vars

(***************************************************************************)
(* tools/gen_patch_metadata.py: parse_patch.  A member name of the zip is  *)
(* a sequence of characters; a file name such as README.html stands as    *)
(* one piece at its end.  Here `args` holds the zip file and patchnum,     *)
(* `patch_data` the local variables of parse_patch, `result` what it       *)
(* returned or raised.                                                     *)
(***************************************************************************)
IsDigit(c) == c \in {"0", "1", "2", "3", "4", "5", "6", "7", "8", "9"}

\* the longest run of digits at the head of s
RECURSIVE DigitRun(_)
DigitRun(s) ==
    IF s # <<>> /\ IsDigit(Head(s)) THEN <<Head(s)>> \o DigitRun(Tail(s)) ELSE <<>>

StartsWith(s, prefix) == Len(s) >= Len(prefix) /\ SubSeq(s, 1, Len(prefix)) = prefix

\* A variant of subdir_match that takes any characters up to the next "/" for
\* the name of the subdirectory.
subdir_match_any_name(item, patchnum) ==
    LET rest == Drop(item, Len(patchnum) + 1)
        group == PrefixNotIn(rest, {"/"})
    IN  IF /\ StartsWith(item, patchnum \o <<"/">>)
           /\ group # <<>>
           /\ Len(rest) > Len(group)
          THEN Match(group)
        ELSE NoMatch

\* re.compile(fr'^{patchnum}/(\d+)/').match(item)
subdir_match(item, patchnum) ==
    LET rest == Drop(item, Len(patchnum) + 1)
        group == DigitRun(rest)
    IN  IF /\ StartsWith(item, patchnum \o <<"/">>)
           /\ group # <<>>
           /\ Len(rest) > Len(group) /\ rest[Len(group) + 1] = "/"
          THEN Match(group)
        ELSE NoMatch

find_patch_subdirs(namelist, patchnum) ==
    {subdir_match(item, patchnum).group :
        item \in {n \in namelist : subdir_match(n, patchnum).matched}}

\* the README of a subdirectory: README.html before README.txt, {} for None
readme_path(namelist, patchnum, subdir_num) ==
    LET html == patchnum \o <<"/">> \o subdir_num \o <<"/", "README.html">>
        txt == patchnum \o <<"/">> \o subdir_num \o <<"/", "README.txt">>
    IN  IF html \in namelist THEN {html} ELSE IF txt \in namelist THEN {txt} ELSE {}

\* the texts a README may hold, and the keywords found in them
ReadmeTexts == {"", "ojvm", "database", "ojvm database"}
has_ojvm_kw(search_text) == search_text \in {"ojvm", "ojvm database"}
has_other_kw(search_text) == search_text \in {"database", "ojvm database"}

\* the analysis of one subdirectory
analysis(zip, patchnum, subdir_num) ==
    LET path == readme_path(zip.namelist, patchnum, subdir_num)
        search_text == zip.readme[CHOOSE r \in path : TRUE]
    IN  IF path = {} \/ search_text = ""
          THEN [is_likely_ojvm |-> FALSE, is_likely_other |-> FALSE]
        ELSE [is_likely_ojvm |-> has_ojvm_kw(search_text) /\ ~has_other_kw(search_text),
              is_likely_other |-> has_other_kw(search_text) /\ ~has_ojvm_kw(search_text)]

\* step 4 of parse_patch: the pair (ojvm_subdir, other_subdir), each with its
\* leading slash
assign_subdirs(subdir_list, readme_analysis) ==
    LET clear_ojvm == {sd \in DOMAIN readme_analysis : readme_analysis[sd].is_likely_ojvm}
        clear_other == {sd \in DOMAIN readme_analysis : readme_analysis[sd].is_likely_other}
        Rest(sd) == CHOOSE n \in 1..Len(subdir_list) :
                        /\ subdir_list[n] # sd
                        /\ \A m \in 1..(n - 1) : subdir_list[m] = sd
        pair == IF Cardinality(clear_ojvm) = 1
                  THEN LET ojvm == CHOOSE sd \in clear_ojvm : TRUE
                       IN  <<ojvm, subdir_list[Rest(ojvm)]>>
                ELSE IF Cardinality(clear_other) = 1
                  THEN LET other == CHOOSE sd \in clear_other : TRUE
                       IN  <<subdir_list[Rest(other)], other>>
                ELSE <<subdir_list[1], subdir_list[2]>>
    IN  <<<<"/">> \o pair[1], <<"/">> \o pair[2]>>

\* the member names a zip may hold, for patchnum 12
ZipNames ==
    {<<"1", "2", "/", "1", "/">>,
     <<"1", "2", "/", "1", "/", "README.html">>,
     <<"1", "2", "/", "1", "/", "README.txt">>,
     <<"1", "2", "/", "2", "/", "README.txt">>,
     <<"1", "2", "/", "2", "1", "/", "file">>,
     <<"1", "2", "/", "a", "/", "file">>,
     <<"1", "2", "/", "3">>,
     <<"x", "/", "1", "2", "/", "4", "/">>}

Readmes == {n \in ZipNames : n[Len(n)] \in {"README.html", "README.txt"}}

Releases == {<<"1", "9", ".", "0">>, <<"2", "1", ".", "0">>}

\* the file: no zip file, a zip without PatchSearch.xml, one whose
\* PatchSearch.xml does not parse, or one with a release in it
ZipFiles ==
    [kind : {"zip"}, xml : {"ok"}, release : Releases,
     namelist : SUBSET ZipNames, readme : [Readmes -> ReadmeTexts]]
    \cup [kind : {"not_zip", "zip"}, xml : {"missing", "malformed"}, release : {<<>>},
          namelist : {{}}, readme : {[r \in Readmes |-> ""]}]

Raised(exception) == [raised |-> exception, value |-> <<>>]
Returned(value) == [raised |-> "", value |-> value]

InitParsePatch ==
    /\ args \in [zip : ZipFiles, patchnum : {<<"1", "2">>}]
    /\ pc = "parse_patch"
    /\ patch_data = <<>>
    /\ result = <<>>
    /\ file = <<>>
    /\ file0 = <<>>
    /\ pre = <<>>
    /\ log = <<>>
    /\ input_state = "ok"
    /\ exit_code = -1

ParsePatchStep(label, locals, outcome) ==
    /\ pc' = label
    /\ patch_data' = locals
    /\ result' = outcome
    /\ UNCHANGED <<file, file0, input_state, exit_code, log, pre, args>>

\* zipfile.is_zipfile and _parse_patch_xml
ParsePatchXml ==
    /\ pc = "parse_patch"
    /\ IF args.zip.kind = "not_zip" \/ args.zip.xml = "malformed"
         THEN ParsePatchStep("returned", patch_data, Raised("ValueError"))
       ELSE IF args.zip.xml = "missing"
         THEN ParsePatchStep("returned", patch_data, Raised("FileNotFoundError"))
       ELSE ParsePatchStep("find_patch_subdirs", [release |-> args.zip.release], result)

\* step 2: the numeric subdirectories, the 21c case and the count of two;
\* list(found_subdirs) comes in either order
FindPatchSubdirs ==
    /\ pc = "find_patch_subdirs"
    /\ LET found_subdirs == find_patch_subdirs(args.zip.namelist, args.patchnum)
       IN  IF found_subdirs = {} /\ StartsWith(patch_data.release, <<"2", "1">>)
             THEN ParsePatchStep("returned", patch_data, Returned(<<<<"/">>, <<"/">>>>))
           ELSE IF Cardinality(found_subdirs) # 2
             THEN ParsePatchStep("returned", patch_data, Raised("ValueError"))
           ELSE \E subdir_list \in [1..2 -> found_subdirs] :
                   /\ subdir_list[1] # subdir_list[2]
                   /\ ParsePatchStep("readme_analysis",
                                     [release |-> patch_data.release,
                                      subdir_list |-> subdir_list],
                                     result)

\* step 3: the README of each subdirectory
AnalyzeReadmes ==
    /\ pc = "readme_analysis"
    /\ ParsePatchStep("assign",
                      [release |-> patch_data.release,
                       subdir_list |-> patch_data.subdir_list,
                       readme_analysis |->
                          [sd \in {patch_data.subdir_list[1], patch_data.subdir_list[2]} |->
                              analysis(args.zip, args.patchnum, sd)]],
                      result)

AssignSubdirs ==
    /\ pc = "assign"
    /\ ParsePatchStep("returned", patch_data,
                      Returned(assign_subdirs(patch_data.subdir_list,
                                              patch_data.readme_analysis)))

NextParsePatch ==
    \/ ParsePatchXml
    \/ FindPatchSubdirs
    \/ AnalyzeReadmes
    \/ AssignSubdirs

SpecParsePatch == InitParsePatch /\ [][NextParsePatch]_vars

(***************************************************************************)
(* tools/callback_plugins/gcp_logging.py: the callback plugin and its      *)
(* CloudLoggingCollector.  In this specification                           *)
(*   patch_data  is the plugin's options (multiprocessing, ignore_errors), *)
(*   file        is self.queue, the oldest message first,                  *)
(*   args        is the payloads passed to send(), in call order,          *)
(*   log         is the entries posted to Cloud Logging with the status    *)
(*               code of each response, in post order,                     *)
(*   pre         is self.tasks, one PLAYBOOK_TASK_END message per started  *)
(*               task,                                                     *)
(*   result      is the number of tasks started,                           *)
(*   input_state is msg, the message the consumer thread dequeued last,    *)
(*   pc          is the position of the main thread and of the consumer    *)
(*               thread,                                                   *)
(*   exit_code   is the exit status sys.exit gave the process, or "none".  *)
(***************************************************************************)
MaxTasks == 2

\* most plays of the playbook
MaxPlays == 2

\* the status codes of the responses of the Cloud Logging API
StatusCodes == {200, 500}

TaskStatuses == {"OK", "FAILED", "SKIPPED", "UNREACHABLE"}

Message(event_type, task_id, status) ==
    [event_type |-> event_type, task_id |-> task_id, status |-> status]

\* the None that v2_playbook_on_stats puts on the queue
NoPayload == Message("None", 0, "")

PlaybookStartMessage == Message("PLAYBOOK_START", 0, "")

PlaybookTaskStartMessage(task_id) == Message("PLAYBOOK_TASK_START", task_id, "")

PlaybookTaskEndMessage(task_id, status) == Message("PLAYBOOK_TASK_END", task_id, status)

PlaybookEndMessage == Message("PLAYBOOK_END", 0, "")

\* queue.Queue: put adds at the back, get takes from the front
queue_put(queue, payload) == Append(queue, payload)

\* _send after full_post returned: "exit" is sys.exit(1), "return" the plain
\* return
send_outcome(status_code, ignore_errors) ==
    IF status_code # 200 /\ ~ignore_errors THEN "exit" ELSE "return"

\* CallbackModule.__init__: the options, the collector and start_consuming
InitLogging ==
    /\ patch_data \in [multiprocessing : BOOLEAN, ignore_errors : BOOLEAN]
    /\ file = <<>>
    /\ file0 = 0
    /\ args = <<>>
    /\ log = <<>>
    /\ pre = <<>>
    /\ result = 0
    /\ input_state = PlaybookStartMessage
    /\ pc = [main |-> "play_start",
             consumer |-> IF patch_data.multiprocessing THEN "get" ELSE "none"]
    /\ exit_code = "none"

\* send(payload) called by the main thread, which goes on at `label`: the
\* payload is queued, or posted at once by _send, where sys.exit(1) ends the
\* process
send(payload, label) ==
    /\ args' = Append(args, payload)
    /\ IF patch_data.multiprocessing
       THEN /\ file' = queue_put(file, payload)
            /\ pc' = [pc EXCEPT !.main = label]
            /\ UNCHANGED <<log, exit_code>>
       ELSE \E status_code \in StatusCodes :
               /\ log' = Append(log, [payload |-> payload, status_code |-> status_code])
               /\ IF send_outcome(status_code, patch_data.ignore_errors) = "exit"
                  THEN /\ pc' = [pc EXCEPT !.main = "exited"]
                       /\ exit_code' = 1
                  ELSE /\ pc' = [pc EXCEPT !.main = label]
                       /\ UNCHANGED exit_code
            /\ UNCHANGED file

\* called when a play of the playbook starts, the first one and every later
\* one after the tasks of the play before it; file0 counts the plays
v2_playbook_on_play_start ==
    /\ pc.main \in {"play_start", "idle"}
    /\ file0 < MaxPlays
    /\ file0' = file0 + 1
    /\ send(PlaybookStartMessage, "idle")
    /\ UNCHANGED <<input_state, patch_data, pre, result>>

v2_runner_on_start ==
    /\ pc.main = "idle"
    /\ result < MaxTasks
    /\ result' = result + 1
    /\ pre' = Append(pre, PlaybookTaskEndMessage(result + 1, ""))
    /\ send(PlaybookTaskStartMessage(result + 1), "running")
    /\ UNCHANGED <<file0, input_state, patch_data>>

\* v2_runner_on_ok, _failed, _skipped and _unreachable
StoreResultInTask ==
    /\ pc.main = "running"
    /\ \E status \in TaskStatuses :
          /\ pre' = [pre EXCEPT ![result].status = status]
          /\ send(pre'[result], "idle")
    /\ UNCHANGED <<file0, input_state, patch_data, result>>

\* v2_playbook_on_stats up to its first send
v2_playbook_on_stats ==
    /\ pc.main = "idle"
    /\ send(PlaybookEndMessage,
            IF patch_data.multiprocessing THEN "stats_sentinel" ELSE "returned")
    /\ UNCHANGED <<file0, input_state, patch_data, pre, result>>

\* v2_playbook_on_stats: send(None)
StatsSendNone ==
    /\ pc.main = "stats_sentinel"
    /\ args' = Append(args, NoPayload)
    /\ file' = queue_put(file, NoPayload)
    /\ pc' = [pc EXCEPT !.main = "stats_wait"]
    /\ UNCHANGED <<file0, input_state, patch_data, exit_code, log, pre, result>>

\* v2_playbook_on_stats: wait(), that is consumer.join()
wait ==
    /\ pc.main = "stats_wait"
    /\ pc.consumer = "dead"
    /\ pc' = [pc EXCEPT !.main = "returned"]
    /\ UNCHANGED <<file, file0, input_state, patch_data, exit_code, log, pre, args, result>>

\* consume: queue.get and the test for None
ConsumeGet ==
    /\ pc.consumer = "get"
    /\ file # <<>>
    /\ input_state' = Head(file)
    /\ file' = Tail(file)
    /\ pc' = [pc EXCEPT !.consumer = IF Head(file) = NoPayload THEN "dead" ELSE "send"]
    /\ UNCHANGED <<file0, patch_data, exit_code, log, pre, args, result>>

\* consume: _send(msg) and task_done.  sys.exit(1) raises SystemExit in the
\* consumer thread, which ends that thread and no other
ConsumeSend ==
    /\ pc.consumer = "send"
    /\ \E status_code \in StatusCodes :
          /\ log' = Append(log, [payload |-> input_state, status_code |-> status_code])
          /\ pc' = [pc EXCEPT !.consumer =
                       IF send_outcome(status_code, patch_data.ignore_errors) = "exit"
                       THEN "dead" ELSE "get"]
    /\ UNCHANGED <<file, file0, input_state, patch_data, exit_code, pre, args, result>>

NextLogging ==
    \/ v2_playbook_on_play_start
    \/ v2_runner_on_start
    \/ StoreResultInTask
    \/ v2_playbook_on_stats
    \/ StatsSendNone
    \/ wait
    \/ ConsumeGet
    \/ ConsumeSend

SpecLogging == InitLogging /\ [][NextLogging]_vars

(***************************************************************************)
(* The script run twice in a row on one output file with one input file:   *)
(* the second run starts on the file the first run left.                   *)
(***************************************************************************)
\* what the search function of `section` leaves of a file, and what its
\* insert function does
SearchOf(section, data, lines) ==
    CASE section = "gi_software" -> gi_software_search_duplicates(data, lines)
      [] section = "gi_interim_patches" -> gi_interim_search_duplicates(data, lines)
      [] section = "rdbms_software" -> rdbms_software_search_duplicates(data, lines)
      [] section = "opatch_patches" -> opatch_patch_search_duplicates(data, lines)
      [] section = "gi_patches" -> gi_patch_search_duplicates(data, lines)
      [] section = "rdbms_patches" -> rdbms_patch_search_duplicates(data, lines)

InsertOf(section, data, lines) ==
    CASE section = "gi_software" ->
             gi_software_insert_patch(gi_software_compile_patch(data), lines)
      [] section = "gi_interim_patches" ->
             gi_interim_insert_patch(gi_interim_compile_patch(data), lines)
      [] section = "rdbms_software" ->
             rdbms_software_insert_patch(rdbms_software_compile_patch(data), lines)
      [] section = "opatch_patches" ->
             opatch_patch_insert_patch(opatch_patch_compile_patch(data), lines)
      [] section = "gi_patches" -> gi_patches_insert_patch(data, lines)
      [] section = "rdbms_patches" -> rdbms_patches_insert_patch(data, lines)

\* main() from the n-th `if patch_data.get(section) is not None` on
RECURSIVE main_from(_, _, _)
main_from(n, data, lines) ==
    IF n > Len(SectionOrder) THEN [lines |-> lines, exit_code |-> 0]
    ELSE IF SectionOrder[n] \notin DOMAIN data THEN main_from(n + 1, data, lines)
    ELSE LET section == SectionOrder[n]
             removed == SearchOf(section, data[section], lines)
             inserted == InsertOf(section, data[section], removed.lines)
         IN  IF removed.raised THEN [lines |-> removed.lines, exit_code |-> 1]
             ELSE IF inserted.outcome \in {"error_exit", "raised"}
               THEN [lines |-> inserted.lines, exit_code |-> 1]
             ELSE main_from(n + 1, data, inserted.lines)

\* main() with an input file that loads
main(data, lines) ==
    IF OutputUnparsable(lines) THEN [lines |-> lines, exit_code |-> 1]
    ELSE main_from(1, data, lines)

\* file0 is the file before the first run, pre the file between the runs,
\* log the exit statuses of the runs so far
InitTwice ==
    /\ \E sc \in Scenarios, framed \in BOOLEAN :
          /\ patch_data = sc.data
          /\ file = Layout(sc.shape, framed, FALSE)
    /\ file0 = file
    /\ pre = file
    /\ input_state = "ok"
    /\ pc = "first_run"
    /\ exit_code = -1
    /\ log = <<>>
    /\ args = <<>>
    /\ result = <<>>

FirstRun ==
    /\ pc = "first_run"
    /\ file' = main(patch_data, file).lines
    /\ pre' = file'
    /\ exit_code' = main(patch_data, file).exit_code
    /\ log' = Append(log, exit_code')
    /\ pc' = "second_run"
    /\ UNCHANGED <<file0, input_state, patch_data, args, result>>

SecondRun ==
    /\ pc = "second_run"
    /\ file' = main(patch_data, file).lines
    /\ exit_code' = main(patch_data, file).exit_code
    /\ log' = Append(log, exit_code')
    /\ pc' = "done"
    /\ UNCHANGED <<file0, input_state, patch_data, pre, args, result>>

NextTwice ==
    \/ FirstRun
    \/ SecondRun

SpecTwice == InitTwice /\ [][NextTwice]_vars

(***************************************************************************)
(* What the properties speak of: the sections and entries of a file as     *)
(* YAML has them, whatever the functions above make of the lines.          *)
(***************************************************************************)
\* the indices of the lines of section `key`: after its header, up to the
\* next top-level line or the end of the file
SectionSpan(lines, key) ==
    IF HeaderIndices(lines, key) = {} THEN {}
    ELSE LET h == Min(HeaderIndices(lines, key))
             tops == {j \in (h + 1)..(Len(lines) - 1) :
                         At(lines, j).k \in {"header", "top", "bad", "comment"}}
             end == IF tops = {} THEN Len(lines) ELSE Min(tops)
         IN  (h + 1)..(end - 1)

\* the line that carries the identity of an entry of `section`, and its value
IdentityOf(section, record) ==
    CASE section \in {"gi_software", "rdbms_software"} -> Strip(record.name)
      [] section = "opatch_patches" -> Strip(record.release)
      [] OTHER -> Strip(record.patchnum)

CarriesIdentity(section, line, value) ==
    CASE section \in {"gi_software", "rdbms_software"} ->
            line.k \in {"name", "name_wide"} /\ Strip(line.text) = value
      [] section = "gi_interim_patches" ->
            line.k = "patchnum" /\ line.text = Quoted(value)
      [] section = "opatch_patches" -> line.k = "opatch" /\ line.release = value
      [] OTHER -> line.k = "patch" /\ line.patchnum = value

\* the entries of `section` in `lines` that have the identity of `record`
IdentityLines(lines, section, record) ==
    {i \in SectionSpan(lines, section) :
        CarriesIdentity(section, At(lines, i), IdentityOf(section, record))}

\* `block` stands in `lines` from index i on
BlockAt(lines, i, block) ==
    /\ i + Len(block) <= Len(lines)
    /\ SubSeq(lines, i + 1, i + Len(block)) = block

\* the insert function of `section` has returned or exited, and no later
\* function has run
JustInserted(section) ==
    /\ log # <<>>
    /\ log[Len(log)][2] = InsertPc[section]
    /\ \A later \in Sections : pc # InsertPc[later]

Reported == log[Len(log)][1]

Batch(section) == patch_data[section]

DistinctIdentities(section) ==
    \A m, n \in 1..Len(Batch(section)) :
        m # n => IdentityOf(section, Batch(section)[m]) # IdentityOf(section, Batch(section)[n])

\* C1 (as stated): in each of the six sections, for every input record whose
\* identity matches an entry the section held before the run's search, the
\* section holds exactly one entry with that identity once search, removal
\* and insertion are over.
C1_ReplacedEntryIsUnique ==
    \A section \in Sections :
        JustInserted(section) /\ DistinctIdentities(section) =>
            \A n \in 1..Len(Batch(section)) :
                IdentityLines(pre, section, Batch(section)[n]) # {} =>
                    Cardinality(IdentityLines(file, section, Batch(section)[n])) = 1

\* The lines a software or interim scan reads: after the header, up to the
\* first blank line or the end of the file.
ScanRegion(lines, key) ==
    IF HeaderIndices(lines, key) = {} THEN {}
    ELSE LET h == Min(HeaderIndices(lines, key))
             blanks == {j \in (h + 1)..(Len(lines) - 1) : At(lines, j).k = "blank"}
         IN  (h + 1)..((IF blanks = {} THEN Len(lines) ELSE Min(blanks)) - 1)

SoftwareSections == {"gi_software", "rdbms_software"}

NameOccurs(lines, section, record) == IdentityLines(lines, section, record) # {}

\* a name line or a version line the scan reads has the record's value
NameOrVersionScanned(lines, section, record) ==
    \E i \in ScanRegion(lines, section) :
        \/ /\ At(lines, i).k \in {"name", "name_wide"}
           /\ Strip(At(lines, i).text) = Strip(record.name)
        \/ At(lines, i).k = "version" /\ Strip(At(lines, i).text) = Strip(record.version)

\* `after` is `before` with the blocks, in some order, put in at index i and
\* nothing else changed
OnlyAdded(before, after, i, blocks) ==
    LET n == Len(Flatten(blocks))
    IN  /\ Len(after) = Len(before) + n
        /\ SubSeq(after, 1, i) = SubSeq(before, 1, i)
        /\ SubSeq(after, i + n + 1, Len(after)) = SubSeq(before, i + 1, Len(before))
        /\ \A b \in 1..Len(blocks) : \E j \in i..(i + n) : BlockAt(after, j, blocks[b])

BatchBlocks(section) == [n \in 1..Len(Batch(section)) |-> EntryBlock(section, Batch(section)[n])]

\* the section has an entry before the search
HasEntry(lines, section) ==
    \E i \in SectionSpan(lines, section) :
        At(lines, i).k \in {"name", "name_wide", "category", "category_wide", "opatch", "patch"}

\* C2 (as stated): inserting software records whose names do not occur in the
\* section adds one entry block per record and leaves every line the file held
\* before unaltered, whatever the versions.
C2_FreshNameOnlyAdds ==
    \A section \in SoftwareSections :
        /\ JustInserted(section)
        /\ HeaderIndices(pre, section) # {}
        /\ \A n \in 1..Len(Batch(section)) : ~NameOccurs(pre, section, Batch(section)[n])
        => OnlyAdded(pre, file, Min(HeaderIndices(pre, section)) + 1, BatchBlocks(section))

\* C2 (amended): inserting software records of which neither the name nor the
\* version stands on a name or version line between the section header and
\* the first blank line after it adds one entry block per record right after
\* the header and leaves every line the file held before unaltered.
C2_FreshNameAndVersionOnlyAdds ==
    \A section \in SoftwareSections :
        /\ JustInserted(section)
        /\ HeaderIndices(pre, section) # {}
        /\ \A n \in 1..Len(Batch(section)) :
              ~NameOrVersionScanned(pre, section, Batch(section)[n])
        => OnlyAdded(pre, file, Min(HeaderIndices(pre, section)) + 1, BatchBlocks(section))

\* a fresh record went in beside two entries that were there
C2_Witness ==
    \E section \in SoftwareSections :
        /\ JustInserted(section)
        /\ Reported = "success"
        /\ HasEntry(pre, section)
        /\ Cardinality({i \in SectionSpan(pre, section) : At(pre, i).k = "name"}) > 1
        /\ \A n \in 1..Len(Batch(section)) :
              ~NameOrVersionScanned(pre, section, Batch(section)[n])
        /\ file # pre

\* the line that opens an entry of a block section
MarkerKind(section) == IF section = "gi_interim_patches" THEN "category" ELSE "name"

EntryStarts(lines, section) ==
    {i \in SectionSpan(lines, section) : At(lines, i).k = MarkerKind(section)}

\* the index after the last line of the entry that starts at `start`
EntryEnd(lines, section, start) ==
    LET stops == {j \in SectionSpan(lines, section) :
                     j > start /\ At(lines, j).k \in {MarkerKind(section), "blank"}}
    IN  IF stops = {} THEN Max(SectionSpan(lines, section)) + 1 ELSE Min(stops)

EntryLines(lines, section, start) ==
    SubSeq(lines, start + 1, EntryEnd(lines, section, start))

Entries(lines, section) ==
    {EntryLines(lines, section, start) : start \in EntryStarts(lines, section)}

\* the entries of the section that hold none of the match lines
Unmatched(lines, section, match_lines) ==
    {start \in EntryStarts(lines, section) :
        \A m \in match_lines : m < start \/ m >= EntryEnd(lines, section, start)}

\* C3 (as stated): whatever match lines of a section are handed to
\* software_delete_duplicates or gi_interim_delete_duplicates, several of
\* one block included, every entry of the section that holds none of them
\* is in the file afterwards with the same lines.
C3_UnmatchedBlocksStay ==
    pc = "return" =>
        \A start \in Unmatched(args.lines, args.section, args.match_lines) :
            EntryLines(args.lines, args.section, start)
                \in Entries(result.lines, args.section)

\* nothing that opens or closes a block stands after line m
LastInFile(lines, section, m) ==
    \A j \in (m + 1)..(Len(lines) - 1) :
        At(lines, j).k \notin {MarkerKind(section), "blank"}

MarkersUpTo(lines, section, m) ==
    {i \in 0..m : At(lines, i).k = MarkerKind(section) /\ m - i < START_WINDOW}

\* C9: when a match line lies in the block that is the last thing in the file
\* (no entry marker and no blank line after it), the remover deletes the
\* lines from the block's marker to the end of the file; when no match line
\* lies before that marker, what is left is exactly the lines before it.
C9_LastBlockRemovedToEndOfFile ==
    pc = "return" =>
        \A m \in args.match_lines :
            /\ LastInFile(args.lines, args.section, m)
            /\ MarkersUpTo(args.lines, args.section, m) # {}
            => LET start == Max(MarkersUpTo(args.lines, args.section, m))
               IN  /\ ~result.raised
                   /\ Len(result.lines) <= start
                   /\ (\A n \in args.match_lines : n >= start)
                          => result.lines = SubSeq(args.lines, 1, start)

\* the last block of the file was matched and is gone, the lines before it are there
C9_Witness ==
    /\ pc = "return"
    /\ \E m \in args.match_lines :
          /\ LastInFile(args.lines, args.section, m)
          /\ MarkersUpTo(args.lines, args.section, m) # {}
          /\ Max(MarkersUpTo(args.lines, args.section, m)) > 0
          /\ result.lines =
                SubSeq(args.lines, 1, Max(MarkersUpTo(args.lines, args.section, m)))
          /\ Len(result.lines) < Len(args.lines)

HeaderMissing(lines, section) == HeaderIndices(lines, section) = {}

AsksFor(section) == input_state = "ok" /\ section \in DOMAIN patch_data

\* C4: when the file has no `gi_software:` line and the input holds
\* gi_software records, the file is never written and the run ends with a
\* non-zero exit status.
C4_MissingGiSoftwareHeaderFails ==
    AsksFor("gi_software") /\ HeaderMissing(file0, "gi_software") =>
        /\ file = file0
        /\ pc = "exit" => exit_code # 0

\* the run on such a file ended in gi_software_insert_patch
C4_Witness ==
    /\ AsksFor("gi_software")
    /\ HeaderMissing(file0, "gi_software")
    /\ pc = "exit"
    /\ JustInserted("gi_software")
    /\ Reported = "error"
    /\ exit_code = 1

\* C5 (as stated): in each of the six sections, an insertion that finds no
\* header line of its section reports an error and the process exits with
\* status 1: it reports no success and the exit status is never 0.
C5_MissingHeaderIsAnError ==
    \A section \in Sections :
        JustInserted(section) /\ HeaderMissing(file, section) =>
            /\ Reported \in {"error", "traceback"}
            /\ pc = "exit"
            /\ exit_code = 1

\* C6 (as stated): when the header of a section the input asks for is missing
\* from the output file, nothing of the run is applied: the file at the end
\* is the file as it was before the run.
C6_MissingHeaderLeavesFileAlone ==
    /\ pc = "exit"
    /\ \E section \in Sections : AsksFor(section) /\ HeaderMissing(file0, section)
    => file = file0

\* C6 (amended): a section whose header is missing when its turn comes changes
\* nothing in the file, which stays as the sections before it left it; for
\* every section but gi_interim_patches the run ends there with exit status 1.
C6_MissingHeaderStopsAtThatSection ==
    \A section \in Sections :
        JustInserted(section) /\ HeaderMissing(pre, section) =>
            /\ file = pre
            /\ section # "gi_interim_patches" => pc = "exit" /\ exit_code = 1

\* an earlier section was applied, then a section without header ended the run
C6_Witness ==
    \E section \in Sections :
        /\ JustInserted(section)
        /\ HeaderMissing(pre, section)
        /\ file = pre
        /\ file # file0
        /\ pc = "exit"
        /\ exit_code = 1

\* the output file holds a line that is not YAML
NotYaml(lines) == \E i \in 1..Len(lines) : lines[i].k = "bad"

SectionFunctions == {SearchPc[section] : section \in Sections}
                        \cup {InsertPc[section] : section \in Sections}

\* C7: when the input file is missing or is not valid YAML, or the output
\* file does not parse, no function that writes the output file is ever
\* entered, the file stays as it was, and the run ends with exit status 1.
C7_BadInputsExitBeforeAnyWrite ==
    input_state \in {"missing", "malformed"} \/ NotYaml(file0) =>
        /\ pc \notin SectionFunctions
        /\ file = file0
        /\ pc = "exit" => exit_code = 1

\* a run whose input loaded stopped at the parse of the output file
C7_Witness ==
    /\ NotYaml(file0)
    /\ input_state = "ok"
    /\ log = <<<<"loaded", "load_yaml">>, <<"error", "main">>>>
    /\ pc = "exit"
    /\ exit_code = 1
    /\ file = file0

\* the lines the duplicate scan of `section` reports for `record`
Rescan(section, record, lines) ==
    CASE section \in SoftwareSections -> software_scan(lines, section, record, 0, TRUE, FALSE)
      [] section = "gi_interim_patches" -> gi_interim_scan(lines, record, 0, TRUE, FALSE)
      [] section = "opatch_patches" -> opatch_duplicates(record, lines)
      [] section = "gi_patches" ->
            {idx \in ParsedSpan(lines, section) :
                gi_patch_is_duplicate(yaml_safe_load(At(lines, idx)).item, record)}
      [] OTHER ->
            {idx \in ParsedSpan(lines, section) :
                rdbms_patch_is_duplicate(yaml_safe_load(At(lines, idx)).item, record)}

\* the identity of the record is nowhere in the section
Fresh(section, record, lines) ==
    /\ IdentityLines(lines, section, record) = {}
    /\ Rescan(section, record, lines) = {}

\* line i belongs to an entry block of `record` that stands in `lines`
InBlockOf(section, record, lines, i) ==
    \E start \in 0..i :
        /\ i < start + Len(EntryBlock(section, record))
        /\ BlockAt(lines, start, EntryBlock(section, record))

\* C8 (as stated): in every section, for a record whose identity is not yet
\* in the section, the insertion followed by the section's duplicate scan
\* for the same record reports exactly one line, and that line belongs to
\* the entry just inserted.
C8_InsertedEntryIsFoundOnce ==
    \A section \in Sections :
        /\ JustInserted(section)
        /\ Len(Batch(section)) = 1
        /\ ~HeaderMissing(pre, section)
        /\ Fresh(section, Batch(section)[1], pre)
        => /\ Cardinality(Rescan(section, Batch(section)[1], file)) = 1
           /\ \A i \in Rescan(section, Batch(section)[1], file) :
                 InBlockOf(section, Batch(section)[1], file, i)

\* a value that is not empty and holds no character that ends a quoted or
\* bracketed value
Plain(v) == v # <<>> /\ \A i \in 1..Len(v) : v[i] \notin {QUOTE, COMMA, "}"}

PlainRecord(section, record) ==
    \A field \in TextFields(section) : Plain(Strip(record[field]))

\* C10 (as stated): for every record and section, the detector's extraction,
\* applied to the lines the formatter made of the record, gives for each
\* identity field exactly the value the record holds.
C10_RoundTripGivesOriginalValues ==
    pc = "extracted" =>
        \A field \in IdentityFields(args.section) :
            result.identity[field] = {args.record[field]}

\* C10 (amended): for every record whose text values, stripped of the white
\* space around them, are not empty and hold no double quote, comma or
\* closing brace, the extraction gives for each identity field exactly the
\* stripped value.
C10_RoundTripGivesStrippedValues ==
    pc = "extracted" /\ PlainRecord(args.section, args.record) =>
        \A field \in IdentityFields(args.section) :
            result.identity[field] = {Strip(args.record[field])}

\* a value with white space around it came back without it
C10_Witness ==
    /\ pc = "extracted"
    /\ PlainRecord(args.section, args.record)
    /\ \E field \in IdentityFields(args.section) :
          /\ Strip(args.record[field]) # args.record[field]
          /\ result.identity[field] = {Strip(args.record[field])}

\* event `a` is in the log before event `b`
Before(a, b) ==
    \E i, j \in 1..Len(log) : i < j /\ log[i] = a /\ log[j] = b

\* run q read the file for its insertion before run p wrote its own, and
\* wrote after it; both printed success
WroteOver(q, p) ==
    /\ p # q
    /\ pc[p] = "exit" /\ exit_code[p] = 0
    /\ pc[q] = "exit" /\ exit_code[q] = 0
    /\ Before(<<q, "insert_read">>, <<p, "insert_write">>)
    /\ Before(<<p, "insert_write">>, <<q, "insert_write">>)

\* the record of run p is not in the file before the runs, and is not the
\* entry run q brings
OwnRecord(p, q) ==
    /\ IdentityLines(file0, patch_data[p].section, patch_data[p].record) = {}
    /\ \/ patch_data[p].section # patch_data[q].section
       \/ IdentityOf(patch_data[p].section, patch_data[p].record)
            # IdentityOf(patch_data[q].section, patch_data[q].record)

\* C11: two runs on one file are not kept apart: whenever one run reads the
\* file for its insertion before the other has written its own and writes
\* after it, the record the other run inserted is missing from the final
\* file, although both runs reported success.
C11_LaterWriteLosesEarlierInsert ==
    \A p, q \in Runs :
        WroteOver(q, p) /\ OwnRecord(p, q) =>
            IdentityLines(file, patch_data[p].section, patch_data[p].record) = {}

\* such an interleaving: both runs succeeded, the record of q is in the file
\* and the record of p is not
C11_Witness ==
    \E p, q \in Runs :
        /\ WroteOver(q, p)
        /\ OwnRecord(p, q)
        /\ IdentityLines(file, patch_data[q].section, patch_data[q].record) # {}
        /\ IdentityLines(file, patch_data[p].section, patch_data[p].record) = {}

\* CLUSTER_TYPE is "RAC" in any mix of upper and lower case
ClusterTypeIsRac ==
    LET v == args.env.CLUSTER_TYPE
    IN  /\ v.set
        /\ Len(v.text) = 3
        /\ v.text[1] \in {"r", "R"} /\ v.text[2] \in {"a", "A"} /\ v.text[3] \in {"c", "C"}

\* the variables a deployment type requires, in the order of declaration
RequiredSingleInstance ==
    <<"INSTANCE_SSH_USER", "INSTANCE_SSH_KEY", "INSTANCE_HOSTGROUP_NAME",
      "INSTANCE_IP_ADDR", "ORA_DB_NAME", "INSTANCE_HOSTNAME">>

RequiredRac ==
    <<"INSTANCE_SSH_USER", "INSTANCE_SSH_KEY", "INSTANCE_HOSTGROUP_NAME",
      "INSTANCE_IP_ADDR", "ORA_DB_NAME", "CLUSTER_CONFIG_JSON", "PRIMARY_IP_ADDR">>

UnsetOrEmpty(name) == ~args.env[name].set \/ args.env[name].text = <<>>

\* the required variables of the selected deployment type that are unset or empty
MissingRequired ==
    SelectSeq(IF ClusterTypeIsRac THEN RequiredRac ELSE RequiredSingleInstance,
              UnsetOrEmpty)

ExpectedFilename ==
    IF ClusterTypeIsRac
      THEN <<"inventory_">> \o args.env.ORA_DB_NAME.text \o <<"_RAC.yml">>
    ELSE <<"inventory_">> \o args.env.INSTANCE_HOSTNAME.text \o <<"_">>
             \o args.env.ORA_DB_NAME.text \o <<".yml">>

Printed(msg) == \E i \in 1..Len(log) : log[i].msg = msg

\* C13: generate_inventory takes the RAC path exactly when CLUSTER_TYPE is
\* "RAC" in any case, the single-instance path otherwise; when it returns
\* True the file inventory_<ORA_DB_NAME>_RAC.yml (RAC) or
\* inventory_<INSTANCE_HOSTNAME>_<ORA_DB_NAME>.yml is in output_dir, which
\* was created if it did not exist.
C13_PathAndFile ==
    /\ pc = "generate_rac_inventory" => ClusterTypeIsRac
    /\ pc = "generate_single_instance_inventory" => ~ClusterTypeIsRac
    /\ \A i \in 1..Len(log) :
          log[i].msg = "Missing required environment variables" =>
              (log[i].deployment = "RAC" <=> ClusterTypeIsRac)
    /\ pre # <<>> => ("vars" \in DOMAIN pre.inventory <=> ClusterTypeIsRac)
    /\ result = "True" =>
          /\ args.output_dir \in file.dirs
          /\ \E f \in file.files :
                f.path = <<args.output_dir, ExpectedFilename>> /\ f.content = pre.inventory
          /\ args.output_dir \notin file0.dirs => Printed("Created output directory")

\* a RAC inventory, CLUSTER_TYPE not in upper case, was written to a
\* directory that had to be created
C13_Witness ==
    /\ result = "True"
    /\ ClusterTypeIsRac
    /\ args.env.CLUSTER_TYPE.text # <<"R", "A", "C">>
    /\ args.output_dir = "new_inventories"
    /\ \E f \in file.files : f.path = <<"new_inventories", ExpectedFilename>>

\* every variable a single-instance deployment requires, INSTANCE_HOSTNAME
\* aside, is set, and INSTANCE_HOSTNAME is not
OnlyHostnameUnset ==
    /\ ~ClusterTypeIsRac
    /\ ~args.env.INSTANCE_HOSTNAME.set
    /\ \A i \in 1..5 : ~UnsetOrEmpty(RequiredSingleInstance[i])

\* C14 (as stated): INSTANCE_HOSTNAME is optional for a single-instance
\* deployment: when it is unset and every other required variable is set, no
\* variable is reported missing, and the host of the inventory is named by
\* the value of INSTANCE_IP_ADDR.
C14_HostnameDefaultsToIpAddr ==
    OnlyHostnameUnset =>
        /\ ~Printed("Missing required environment variables")
        /\ pre # <<>> => DOMAIN pre.inventory.hosts = {args.env.INSTANCE_IP_ADDR}

\* the parts of a member name between its slashes
RECURSIVE Components(_)
Components(name) ==
    LET first == PrefixNotIn(name, {"/"})
    IN  IF Len(first) = Len(name) THEN <<first>>
        ELSE <<first>> \o Components(Drop(name, Len(first) + 1))

AllDigits(s) == s # <<>> /\ \A i \in 1..Len(s) : IsDigit(s[i])

\* the numeric directories directly under "<patchnum>/" in the zip
NumericSubdirs ==
    {Components(n)[2] :
        n \in {m \in args.zip.namelist :
                  /\ Len(Components(m)) >= 3
                  /\ Components(m)[1] = args.patchnum
                  /\ AllDigits(Components(m)[2])}}

ReleaseIs21 ==
    /\ Len(args.zip.release) >= 2
    /\ args.zip.release[1] = "2" /\ args.zip.release[2] = "1"

\* C15: for a zip whose release does not start with "21", parse_patch raises
\* ValueError when the zip does not hold exactly two numeric subdirectories
\* under "<patchnum>/", and otherwise returns two distinct subdirectories,
\* each "/" followed by the name of one of them, that together are all of them.
C15_TwoNumericSubdirs ==
    pc = "returned" /\ args.zip.kind = "zip" /\ args.zip.xml = "ok" /\ ~ReleaseIs21 =>
        IF Cardinality(NumericSubdirs) = 2
          THEN /\ result.raised = ""
               /\ result.value[1] # result.value[2]
               /\ {result.value[1], result.value[2]} = {<<"/">> \o d : d \in NumericSubdirs}
        ELSE result.raised = "ValueError"

\* parse_patch returned the two subdirectories of a zip that also holds a
\* directory that is not numeric, the one with the README about OJVM first
C15_Witness ==
    /\ pc = "returned"
    /\ args.zip.xml = "ok" /\ ~ReleaseIs21
    /\ Cardinality(NumericSubdirs) = 2
    /\ <<"1", "2", "/", "a", "/", "file">> \in args.zip.namelist
    /\ args.zip.readme[<<"1", "2", "/", "2", "/", "README.txt">>] = "ojvm"
    /\ result = Returned(<<<<"/", "2">>, <<"/", "1">>>>)

(***************************************************************************)
(* Cloud Logging: what was sent and what was posted                        *)
(***************************************************************************)
\* the payloads of the entries posted so far, in post order
Posted == [i \in 1..Len(log) |-> log[i].payload]

\* the messages passed to send(), in call order, the None sentinel left out
SentMessages == SelectSeq(args, LAMBDA payload : payload # NoPayload)

IsPrefix(s, t) == Len(s) <= Len(t) /\ \A i \in 1..Len(s) : s[i] = t[i]

PostedInSendOrder == IsPrefix(Posted, SentMessages)

ErrorResponse == \E i \in 1..Len(log) : log[i].status_code # 200

\* C16: in multiprocessing mode the consumer thread posts the queued
\* messages in the order of the send() calls, is finished once it has
\* dequeued None, and v2_playbook_on_stats has returned only when every
\* message sent before the None sentinel has been posted.
C16_StatsReturnsAfterEveryPost ==
    patch_data.multiprocessing =>
        /\ PostedInSendOrder
        /\ (input_state = NoPayload => pc.consumer = "dead")
        /\ (pc.main = "returned" => Posted = SentMessages)

\* C17: in both modes, with ignore_errors enabled no response ends the run
\* and every message sent is still posted by the time the run is over; with
\* ignore_errors disabled a response other than 200 ends the run with exit
\* status 1.
C17_IgnoreErrorsDecidesExit ==
    /\ patch_data.ignore_errors =>
          /\ exit_code = "none"
          /\ pc.main # "exited"
          /\ (pc.main = "returned" => Posted = SentMessages)
    /\ (~patch_data.ignore_errors /\ ErrorResponse) =>
          /\ pc.main = "exited"
          /\ exit_code = 1

(***************************************************************************)
(* The block a remover is to delete                                        *)
(***************************************************************************)
\* the nearest entry-marker line at or before line m
BlockFirst(lines, section, m) ==
    Max({i \in 0..m : At(lines, i).k = MarkerKind(section)})

\* the next entry-marker line or blank line after line m, or the end of the file
BlockStop(lines, section, m) ==
    Min({j \in (m + 1)..(Len(lines) - 1) :
            At(lines, j).k \in {MarkerKind(section), "blank"}} \cup {Len(lines)})

EnclosingBlock(lines, section, m) ==
    BlockFirst(lines, section, m)..(BlockStop(lines, section, m) - 1)

HasMarkerBefore(lines, section, m) ==
    \E i \in 0..m : At(lines, i).k = MarkerKind(section)

\* `lines` without the lines whose indices are in `gone`
Without(lines, gone) ==
    LET F[n \in 0..Len(lines)] ==
            IF n = 0 THEN <<>>
            ELSE IF (n - 1) \in gone THEN F[n - 1] ELSE Append(F[n - 1], lines[n])
    IN  F[Len(lines)]

\* C18: for the match lines handed to a remover, what is deleted is exactly
\* the enclosing entry blocks, each from the nearest entry-marker line before
\* the match line up to, not including, the next entry-marker line or blank
\* line; so the blank line that ends the section and the header of the next
\* section stay.
C18_ExactlyTheEnclosingBlockIsDeleted ==
    /\ pc = "return"
    /\ \A m \in args.match_lines : HasMarkerBefore(args.lines, args.section, m)
    => result.lines =
          Without(args.lines,
                  UNION {EnclosingBlock(args.lines, args.section, m) :
                            m \in args.match_lines})

(***************************************************************************)
(* Duplicates in the categorized sections                                  *)
(***************************************************************************)
CategorizedSections == {"opatch_patches", "gi_patches", "rdbms_patches"}

\* every entry of opatch_patches has the category "OPatch"
SameCategory(section, line, record) ==
    section = "opatch_patches" \/ line.category = Strip(record.category)

\* the entry on `line` has the category of `record` and its release or its patchnum
IsDuplicateOf(section, line, record) ==
    /\ line.k \in {"opatch", "patch"}
    /\ SameCategory(section, line, record)
    /\ \/ line.release = Strip(record.release)
       \/ line.patchnum = Strip(record.patchnum)

DuplicatesOfBatch(lines, section) ==
    {i \in SectionSpan(lines, section) :
        \E n \in 1..Len(Batch(section)) :
            IsDuplicateOf(section, At(lines, i), Batch(section)[n])}

\* the search function of `section` has returned and its insert function is next
JustSearched(section) == section \in DOMAIN patch_data /\ pc = InsertPc[section]

\* the entries of the section are followed by a blank line
ClosedByBlank(lines, section) ==
    /\ HeaderIndices(lines, section) # {}
    /\ ScannedSpan(lines, section, 0) \subseteq SectionSpan(lines, section)

\* C19: in opatch_patches, gi_patches and rdbms_patches, each closed by a
\* blank line, the entries the search reports, and so removes, are exactly
\* those whose category is that of an incoming record and whose release or
\* patchnum is that record's; an entry of another category stays.
C19_DuplicateIffCategoryAndReleaseOrPatchnum ==
    \A section \in CategorizedSections :
        JustSearched(section) /\ ClosedByBlank(pre, section) =>
            file = Without(pre, DuplicatesOfBatch(pre, section))

(***************************************************************************)
(* Where a sorted insertion puts its line                                  *)
(***************************************************************************)
SortedSections == {"gi_patches", "rdbms_patches"}

\* line i of `lines` is the entry of `record`, and the line before it is an
\* entry of the record's category and base
SitsAfterItsGroup(lines, i, record) ==
    /\ At(lines, i) = PatchLine(record)
    /\ i > 0
    /\ At(lines, i - 1).k = "patch"
    /\ At(lines, i - 1).category = Strip(record.category)
    /\ At(lines, i - 1).base = Strip(record.base)

\* C20: after a successful insertion into gi_patches or rdbms_patches, the
\* line of every inserted record stands directly after an entry with the
\* record's category and base, whatever entries, comment lines and groups
\* the section held.
C20_InsertedLineFollowsItsGroup ==
    \A section \in SortedSections :
        JustInserted(section) /\ Reported = "success" =>
            \A n \in 1..Len(Batch(section)) :
                \E i \in SectionSpan(file, section) :
                    SitsAfterItsGroup(file, i, Batch(section)[n])

(***************************************************************************)
(* A batch for a sorted section, one record of which finds no group        *)
(***************************************************************************)
\* an entry of the section, other than the record's own, has the record's
\* category and base
GroupStands(lines, section, record) ==
    \E i \in SectionSpan(lines, section) :
        /\ At(lines, i).k = "patch"
        /\ At(lines, i) # PatchLine(record)
        /\ At(lines, i).category = Strip(record.category)
        /\ At(lines, i).base = Strip(record.base)

HoldsEntry(lines, section, record) ==
    \E i \in SectionSpan(lines, section) : At(lines, i) = PatchLine(record)

\* C21: when the scan for one record of a batch for gi_patches or
\* rdbms_patches ends with an error, only that record is left out: every
\* record of the batch, earlier or later, whose category and base stand in
\* the section is in the file when the function is over.
C21_OnlyTheUnmatchedRecordIsLeftOut ==
    \A section \in SortedSections :
        JustInserted(section) /\ Reported = "error" =>
            \A n \in 1..Len(Batch(section)) :
                GroupStands(file, section, Batch(section)[n])
                    => HoldsEntry(file, section, Batch(section)[n])

(***************************************************************************)
(* The order of the blocks of a batch after the header                     *)
(***************************************************************************)
\* C22: after a successful insertion of the records r1..rn into gi_software
\* or rdbms_software, their blocks stand directly after the section's header
\* line in the order r1..rn.
C22_BlocksFollowHeaderInInputOrder ==
    \A section \in SoftwareSections :
        JustInserted(section) /\ Reported = "success" =>
            BlockAt(file, Min(HeaderIndices(file, section)) + 1,
                    Flatten(BatchBlocks(section)))

(***************************************************************************)
(* A match line without an entry marker in the window before it            *)
(***************************************************************************)
BlockSections == {"gi_software", "gi_interim_patches", "rdbms_software"}

\* the lines the search of `section` reported for the batch, on the file as
\* it was before the search
MatchesOfBatch(section) ==
    IF section = "gi_interim_patches"
    THEN gi_interim_duplicates(Batch(section), pre)
    ELSE software_duplicates(Batch(section), section, pre)

\* none of the 10 lines at or before line m is an entry marker of the section
NoMarkerInWindow(lines, section, m) ==
    \A i \in 0..m : m - i < 10 => At(lines, i).k # MarkerKind(section)

\* the lines of the entry around line m whose first line is no entry marker:
\* from its wide dash to the next entry marker or blank line
StrayBlock(lines, section, m) ==
    LET dashes == {i \in 0..m : At(lines, i).k \in {"name_wide", "category_wide"}}
        first == IF dashes = {} THEN m ELSE Max(dashes)
    IN  SubSeq(lines, first + 1, BlockStop(lines, section, m))

BlockStands(lines, section, block) ==
    \E i \in SectionSpan(lines, section) : BlockAt(lines, i, block)

\* the block stands somewhere in the file, in the section or, when the scan
\* ran on into the sections after it, there
StandsInFile(lines, block) ==
    \E i \in 0..(Len(lines) - 1) : BlockAt(lines, i, block)

\* the search function of `section` is over: it returned, or died of an exception
SearchOver(section) ==
    /\ section \in DOMAIN patch_data
    /\ \/ pc = InsertPc[section]
       \/ /\ pc = "exit"
          /\ log # <<>>
          /\ log[Len(log)] = <<"traceback", SearchPc[section]>>

StrayMatches(section) ==
    {m \in MatchesOfBatch(section) : NoMarkerInWindow(pre, section, m)}

\* C23: when a line reported for gi_software, gi_interim_patches or
\* rdbms_software has no entry marker among the 10 lines at or before it,
\* the remover reports an error, the lines of that match stay, the blocks of
\* the other matches are gone, and the run is at the insertion step with no
\* exit status set.
C23_StrayMatchIsReportedAndSkipped ==
    \A section \in BlockSections :
        SearchOver(section) /\ StrayMatches(section) # {} =>
            /\ pc = InsertPc[section]
            /\ Running
            /\ \E i \in 1..Len(log) : log[i] = <<"error", SearchPc[section]>>
            /\ \A m \in StrayMatches(section) :
                  StandsInFile(file, StrayBlock(pre, section, m))
            /\ \A m \in MatchesOfBatch(section) \ StrayMatches(section) :
                  ~BlockStands(file, section,
                               SubSeq(pre, BlockFirst(pre, section, m) + 1,
                                      BlockStop(pre, section, m)))

\* a stray match and a match with its marker were reported in one search
C23_Witness ==
    \E section \in BlockSections :
        /\ SearchOver(section)
        /\ StrayMatches(section) # {}
        /\ MatchesOfBatch(section) \ StrayMatches(section) # {}
        /\ Len(file) < Len(pre)


\* the lines one record of the batch is reported for by the scan of `section`
MatchesOfRecord(section, record) ==
    IF section = "gi_interim_patches"
    THEN gi_interim_scan(pre, record, 0, TRUE, FALSE)
    ELSE software_scan(pre, section, record, 0, TRUE, FALSE)

\* the first line of the entry that line m belongs to: the nearest line at or
\* before m that opens a list item
EntryFirst(lines, m) ==
    LET dashes == {i \in 0..m : At(lines, i).k \in
                      {"name", "name_wide", "category", "category_wide"}}
    IN  IF dashes = {} THEN m ELSE Max(dashes)

\* the identity fields of the entry of line m stand on two lines in a row, the
\* one the scan tests first above the other: name over version in the software
\* sections, version over patchnum in gi_interim_patches
IdentityFieldsInARow(lines, section, m) ==
    LET first == EntryFirst(lines, m)
        stop == BlockStop(lines, section, m)
    IN  \E i \in first..(stop - 2) :
           IF section = "gi_interim_patches"
           THEN At(lines, i).k = "version" /\ At(lines, i + 1).k = "patchnum"
           ELSE At(lines, i).k \in {"name", "name_wide"} /\ At(lines, i + 1).k = "version"

\* C24 as stated: for one record, the scan of gi_software, gi_interim_patches
\* or rdbms_software reports at most one line of each entry of the file.
C24_OneIndexPerEntry ==
    \A section \in BlockSections :
        SearchOver(section) =>
            \A n \in 1..Len(Batch(section)) :
                \A m1, m2 \in MatchesOfRecord(section, Batch(section)[n]) :
                    EntryFirst(pre, m1) = EntryFirst(pre, m2) => m1 = m2

\* C24, amended: for one record, the scan reports at most one line of each
\* entry whose two identity fields stand on two lines in a row, the field
\* tested first above the other.
C24_OneIndexPerEntryInFieldOrder ==
    \A section \in BlockSections :
        SearchOver(section) =>
            \A n \in 1..Len(Batch(section)) :
                \A m1, m2 \in MatchesOfRecord(section, Batch(section)[n]) :
                    /\ EntryFirst(pre, m1) = EntryFirst(pre, m2)
                    /\ IdentityFieldsInARow(pre, section, m1)
                    => m1 = m2

\* a record was reported for an entry of gi_software whose name and version
\* both equal its own, so that the skipped line would have been a second match
C24_Witness ==
    /\ SearchOver("gi_software")
    /\ \E n \in 1..Len(Batch("gi_software")) :
          \E m \in MatchesOfRecord("gi_software", Batch("gi_software")[n]) :
             /\ IdentityFieldsInARow(pre, "gi_software", m)
             /\ name_match(At(pre, m)).matched
             /\ version_match(At(pre, m + 1)).matched
             /\ Strip(version_match(At(pre, m + 1)).group)
                   = Strip(Batch("gi_software")[n].version)


\* the sections of the input that come after `section` in the order
\* gi_software, gi_interim_patches, rdbms_software, opatch_patches,
\* gi_patches, rdbms_patches
LaterSections(section) ==
    LET order == <<"gi_software", "gi_interim_patches", "rdbms_software",
                   "opatch_patches", "gi_patches", "rdbms_patches">>
    IN  {order[j] : j \in {j \in 1..6 : order[j] \in DOMAIN patch_data
                                         /\ \E i \in 1..(j - 1) : order[i] = section}}

\* the step of a section of the input is taken: its search or its insertion
AtSection(section) == pc \in {SearchPc[section], InsertPc[section]}

\* C25: in every step of a run, (a) the file changes only in the search or the
\* insertion of a section of the input; (b) a search is followed by the
\* insertion of the same section, which works on the whole file as the search
\* wrote it; (c) after an insertion the run goes on with the first later
\* section of the input in the order gi_software, gi_interim_patches,
\* rdbms_software, opatch_patches, gi_patches, rdbms_patches, or ends when
\* there is none; (d) no step is taken for a section absent from the input;
\* (e) the first section taken is the first section of the input in that order.
C25_SectionsOneAtATimeInFixedOrder ==
    [][ /\ file' # file => \E section \in DOMAIN patch_data : AtSection(section)
        /\ pc = "preflight" /\ pc' # "exit" =>
              \E first \in DOMAIN patch_data :
                 /\ pc' = SearchPc[first]
                 /\ \A other \in DOMAIN patch_data :
                       other = first \/ other \in LaterSections(first)
        /\ \A section \in Sections :
              /\ pc = SearchPc[section] =>
                    /\ section \in DOMAIN patch_data
                    /\ file' = SearchOf(section, patch_data[section], file).lines
                    /\ pc' \in {InsertPc[section], "exit"}
                    /\ pc' = "exit" => exit_code' = 1
              /\ pc = InsertPc[section] =>
                    /\ section \in DOMAIN patch_data
                    /\ file = SearchOf(section, patch_data[section], pre).lines
                    /\ file' = InsertOf(section, patch_data[section], file).lines
                    /\ \/ pc' = "exit" /\ (exit_code' = 1 \/ LaterSections(section) = {})
                       \/ \E next \in LaterSections(section) :
                             /\ pc' = SearchPc[next]
                             /\ \A other \in LaterSections(section) :
                                   other = next \/ other \in LaterSections(next)
              /\ pc' \in {SearchPc[section], InsertPc[section]} =>
                    section \in DOMAIN patch_data
      ]_vars

\* a run over gi_software and gi_patches, with the four other sections absent
\* from the input, has rewritten the file and is at the search of gi_patches
C25_Witness ==
    /\ DOMAIN patch_data = {"gi_software", "gi_patches"}
    /\ pc = SearchPc["gi_patches"]
    /\ file # file0
    /\ log # <<>>
    /\ log[Len(log)] = <<"success", InsertPc["gi_software"]>>


\* the lines of a block on which a file item starts
FileItems(block) ==
    {i \in 1..Len(block) : block[i].k \in {"file", "file_head"}}

\* C26: after a successful insertion into gi_software or rdbms_software, the
\* block written for each record of the batch has as many lines starting a
\* file item as the record has files, and the file parses as YAML.
C26_EachFileIsItsOwnItem ==
    \A section \in SoftwareSections :
        JustInserted(section) /\ Reported = "success" =>
            /\ ~OutputUnparsable(file)
            /\ \A n \in 1..Len(Batch(section)) :
                  /\ BlockStands(file, section, BatchBlocks(section)[n])
                  /\ Cardinality(FileItems(BatchBlocks(section)[n]))
                        = Len(Batch(section)[n].files)


\* the section holds an entry of the record's category and base
GroupInSection(lines, section, record) ==
    \E i \in SectionSpan(lines, section) :
        /\ At(lines, i).k = "patch"
        /\ At(lines, i).category = Strip(record.category)
        /\ At(lines, i).base = Strip(record.base)

\* the insertion of `section` has ended, whatever its outcome
InsertOver(section) ==
    /\ section \in DOMAIN patch_data
    /\ log # <<>>
    /\ log[Len(log)][2] = InsertPc[section]

\* C27: when gi_patches_insert_patch or rdbms_patches_insert_patch has ended on
\* a section that closed with a blank line and held, when the insertion
\* started, an entry of the category and base of every record of the batch,
\* the section holds the entry line of every record of the batch, as many
\* times as the batch holds the record.
C27_EveryRecordOfTheBatchIsInserted ==
    \A section \in SortedSections :
        LET before == SearchOf(section, Batch(section), pre).lines
        IN  /\ InsertOver(section)
            /\ ClosedByBlank(before, section)
            /\ \A n \in 1..Len(Batch(section)) :
                   GroupInSection(before, section, Batch(section)[n])
            => \A n \in 1..Len(Batch(section)) :
                  Cardinality({i \in SectionSpan(file, section) :
                                  At(file, i) = PatchLine(Batch(section)[n])})
                  >= Cardinality({m \in 1..Len(Batch(section)) :
                                     Batch(section)[m] = Batch(section)[n]})


\* the runs of Spec end as main() computes: the steps taken one at a time
\* leave the file and the exit status of the whole run
RunIsMain ==
    pc = "exit" /\ input_state = "ok" =>
        /\ file = main(patch_data, file0).lines
        /\ exit_code = main(patch_data, file0).exit_code

\* both runs are over and both ended with exit status 0
BothRunsSucceeded == pc = "done" /\ log = <<0, 0>>

\* C28: when the script has run twice in a row with the same input file and
\* both runs ended with exit status 0, the output file after the second run
\* equals the output file after the first run.
C28_SecondRunGivesTheSameFile ==
    BothRunsSucceeded => file = pre


\* the batch of opatch_patches stands in `lines` from line `first` on, one
\* entry line per record, in input order
OpatchBatchAt(lines, first) ==
    \A n \in 1..Len(Batch("opatch_patches")) :
        /\ first + n - 1 < Len(lines)
        /\ At(lines, first + n - 1) = OpatchLine(Batch("opatch_patches")[n])

\* C29: after a successful opatch_patch_insert_patch the header line
\* `opatch_patches:` is on the line it was on when the insertion started, and
\* the entry lines of the batch stand in input order after the header, with
\* no top-level line between the header and the last of them.
C29_EntriesLieInsideTheSection ==
    JustInserted("opatch_patches") /\ Reported = "success" =>
        LET before == SearchOf("opatch_patches", Batch("opatch_patches"), pre).lines
            h == Min(HeaderIndices(file, "opatch_patches"))
        IN  /\ h = Min(HeaderIndices(before, "opatch_patches"))
            /\ \E first \in (h + 1)..(Len(file) - 1) :
                  /\ OpatchBatchAt(file, first)
                  /\ \A j \in (h + 1)..(first + Len(Batch("opatch_patches")) - 1) :
                        ~IsTopLevelLine(At(file, j))


\* the positions in the send history of the messages of an event type
SentAt(event_type) ==
    {i \in 1..Len(args) : args[i].event_type = event_type}

\* C30: once the callback has sent anything, it has sent exactly one
\* PLAYBOOK_START message, and that one before every PLAYBOOK_TASK_START
\* message.
C30_OnePlaybookStartBeforeTheTasks ==
    args # <<>> =>
        /\ Cardinality(SentAt("PLAYBOOK_START")) = 1
        /\ \A i \in SentAt("PLAYBOOK_START"), j \in SentAt("PLAYBOOK_TASK_START") : i < j

====
